---- MODULE Spec2Model ----
(***************************************************************************)
(* Symbol table construction and name resolution of                        *)
(* verilog/analysis/symbol_table.cc.                                       *)
(*                                                                         *)
(* The scope tree (SymbolTableNode = MapTree<string_view, SymbolInfo>) is  *)
(* a sequence of node records; a node pointer is its index, nullptr is 0,  *)
(* the root is node 1.  A reference tree (ReferenceComponentNode =         *)
(* VectorTree<ReferenceComponent>) is a sequence of node records with the  *)
(* index of the parent node (0 at the root); the children of a node are    *)
(* the nodes naming it as parent, in index (= insertion) order.  A pointer *)
(* to a reference node is [scope, ref, node]: the scope whose              *)
(* local_references_to_bind holds the tree, the position of the tree in    *)
(* that list and the node in the tree.                                     *)
(*                                                                         *)
(* The syntax tree comes from the parser, which is outside this code: it   *)
(* is a tree of tagged nodes and token leaves, and the builder walks it    *)
(* keeping the stack of enclosing nodes that it reads through Context().   *)
(***************************************************************************)
EXTENDS Integers, Sequences, FiniteSets, TLC

\* Bounds of the model.
MaxBody == 2     \* items in the body of module m
MaxCalls == 2    \* Resolve / ResolveLocallyOnly calls after the build

VARIABLES
  project,        \* the translation unit handed to the symbol table
  symbol_table,   \* SymbolTable::symbol_table_root_ (the whole scope tree)
  diagnostics,    \* the caller's std::vector<absl::Status>
  calls,          \* history: the public calls made so far, in order
  crashed,        \* the process was terminated (failed CHECK, invalid access)
  process         \* the preprocessor tool: command line, streams, exit code

vars == <<project, symbol_table, diagnostics, calls, crashed, process>>

----------------------------------------------------------------------------
\* Data model

NullRef == [scope |-> 0, ref |-> 0, node |-> 0]

\* DeclarationTypeInfo{}: no syntax origin, no user-defined type.
DeclarationTypeInfo == [syntax_origin |-> FALSE, user_defined_type |-> NullRef]

\* file_origin is the path of the source file, syntax_origin the tag of the
\* syntax node of the declaration.
SymbolInfo(type, file_origin, syntax_origin, declared_type) ==
  [type |-> type, file_origin |-> file_origin, syntax_origin |-> syntax_origin,
   declared_type |-> declared_type, local_references_to_bind |-> <<>>,
   anonymous_scope_names |-> <<>>]

\* A pool that does not grow: every name is numbered 0.
CreateAnonymousScopeUnnumbered(symbol_info, base) ==
  [info |-> symbol_info, name |-> "%" \o "anon-" \o base \o "-" \o ToString(0)]

\* SymbolInfo::CreateAnonymousScope(base): the symbol with the new name in
\* its pool, and the name.
CreateAnonymousScope(symbol_info, base) ==
  [info |-> [symbol_info EXCEPT
               !.anonymous_scope_names =
                  Append(@, "%" \o "anon-" \o base \o "-" \o ToString(Len(@)))],
   name |-> "%" \o "anon-" \o base \o "-"
              \o ToString(Len(symbol_info.anonymous_scope_names))]

\* The table of a freshly constructed SymbolTable: the root alone.
EmptySymbolTable ==
  << [parent |-> 0, key |-> ""] @@ SymbolInfo("kRoot", "", "", DeclarationTypeInfo) >>

ReferenceComponent(identifier, ref_type, metatype, resolved_symbol) ==
  [identifier |-> identifier, ref_type |-> ref_type, metatype |-> metatype,
   resolved_symbol |-> resolved_symbol]

\* A faulty MatchesMetatype: every found symbol is accepted.
MatchesAnyMetatype(component, found_metatype) == TRUE

\* ReferenceComponent::MatchesMetatype(found_metatype).ok()
MatchesMetatype(component, found_metatype) ==
  CASE component.metatype = "kUnspecified" -> TRUE
    [] component.metatype = "kCallable" ->
         found_metatype \in {"kFunction", "kTask"}
    [] OTHER -> component.metatype = found_metatype

\* std::less<absl::string_view> on the identifiers of the model (byte order).
IdentifierOrder ==
  << "%anon-generate-0", "%anon-generate-1", "%anon-generate-2",
     "%anon-generate-3", "%anon-generate-4", "%anon-generate-5",
     "%anon-generate-6", "%anon-generate-7", "%anon-generate-8",
     "%anon-generate-9",
     "A", "B", "C", "D", "E", "F", "G", "P", "T",
     "a", "b", "c", "f", "g", "m", "p", "q", "u", "x", "y" >>

KeyRank(key) ==
  IF \E i \in 1..Len(IdentifierOrder) : IdentifierOrder[i] = key
  THEN CHOOSE i \in 1..Len(IdentifierOrder) : IdentifierOrder[i] = key
  ELSE 0

\* MapTree::Find: the child of context with that key, or 0 (end()).
Find(st, context, key) ==
  LET found == {i \in 1..Len(st) : st[i].parent = context /\ st[i].key = key}
  IN  IF found = {} THEN 0 ELSE CHOOSE i \in found : TRUE

\* An emplace that replaces the record of a resident node.
TryEmplaceOverwriting(st, context, key, info) ==
  LET found == Find(st, context, key)
  IN  IF found # 0
      THEN [st |-> [st EXCEPT ![found] = [parent |-> context, key |-> key]
                                           @@ info],
            node |-> found, inserted |-> FALSE]
      ELSE [st |-> Append(st, [parent |-> context, key |-> key] @@ info),
            node |-> Len(st) + 1, inserted |-> TRUE]

\* MapTree::TryEmplace: inserts when absent; the resident node either way.
TryEmplace(st, context, key, info) ==
  LET found == Find(st, context, key)
  IN  IF found # 0
      THEN [st |-> st, node |-> found, inserted |-> FALSE]
      ELSE [st |-> Append(st, [parent |-> context, key |-> key] @@ info),
            node |-> Len(st) + 1, inserted |-> TRUE]

\* VectorTree: the children of node n, in order.
RefChildren(tree, n) ==
  LET kids == {i \in 1..Len(tree) : tree[i].parent = n}
      RECURSIVE Ordered(_)
      Ordered(S) == IF S = {} THEN <<>>
                    ELSE LET least == CHOOSE i \in S : \A j \in S : i <= j
                         IN  <<least>> \o Ordered(S \ {least})
  IN  Ordered(kids)

\* The children of a node are a std::vector: capacity is the room of its
\* storage.  std::vector::reserve(n) moves the storage to one of n elements
\* when it has room for fewer, and does nothing otherwise.
Reserve(tree, n, num) ==
  IF tree[n].capacity < num THEN [tree EXCEPT ![n].capacity = num] ELSE tree

\* emplace_back on a full storage moves it to a larger one.
Reallocates(tree, parent) == Len(RefChildren(tree, parent)) = tree[parent].capacity

\* VectorTree::NewChild
NewChild(tree, parent, component) ==
  LET size == Len(RefChildren(tree, parent))
      grown == IF Reallocates(tree, parent)
               THEN [tree EXCEPT ![parent].capacity =
                                   IF size = 0 THEN 1 ELSE 2 * size]
               ELSE tree
  IN  Append(grown, component @@ [parent |-> parent, capacity |-> 0])

RECURSIVE LastLeafFrom(_, _)
LastLeafFrom(tree, n) ==
  LET kids == RefChildren(tree, n)
  IN  IF kids = <<>> THEN n ELSE LastLeafFrom(tree, kids[1])

\* DependentReferences::LastLeaf (0 when the tree is empty).
LastLeaf(tree) == IF tree = <<>> THEN 0 ELSE LastLeafFrom(tree, 1)

\* DependentReferences::PushReferenceComponent
PushReferenceComponent(tree, component) ==
  IF tree = <<>>
  THEN <<component @@ [parent |-> 0, capacity |-> 0]>>
  ELSE NewChild(tree, LastLeafFrom(tree, 1), component)

----------------------------------------------------------------------------
\* Diagnostics.  A status is its code, the fixed text of its message and the
\* names the message is built from; "at" is the reference component whose
\* resolution produced it (NullRef for the diagnostics of the build).

Status(code, text, name, context, at) ==
  [code |-> code, text |-> text, name |-> name, context |-> context, at |-> at]

DiagnoseMemberSymbolResolutionFailure(name, context, at) ==
  Status("kNotFound", "No member symbol", name, context, at)

DiagnoseUnqualifiedSymbolResolutionFailure(name, context, at) ==
  Status("kNotFound", "Unable to resolve symbol", name, context, at)


MetatypeMismatch(component, found_metatype_of, at) ==
  Status("kInvalidArgument", "Expecting reference to resolve to a",
         component.identifier, found_metatype_of, at)

TypeHasNoMembers(parent_identifier, parent_scope, at) ==
  Status("kInvalidArgument", "does not have any members",
         parent_identifier, parent_scope, at)

----------------------------------------------------------------------------
\* The syntax tree.  A symbol is a leaf (a token: its tag and text) or a node
\* (its NodeEnum tag and children).  The "text" of a node is the name that the
\* accessor of verilog/CST for that construct returns (GetModuleName,
\* GetClassName, GetNameLeafOfRegisterVariable, ...).

Leaf(tag, text) == [leaf |-> TRUE, tag |-> tag, text |-> text, children |-> <<>>]

Node(tag, text, children) ==
  [leaf |-> FALSE, tag |-> tag, text |-> text, children |-> children]

RECURSIVE HasLeaf(_)
\* verible::GetLeftmostLeaf(symbol) != nullptr
HasLeaf(symbol) ==
  \/ symbol.leaf
  \/ \E i \in 1..Len(symbol.children) : HasLeaf(symbol.children[i])

----------------------------------------------------------------------------
\* The translation units of the model, as the parser hands them over.

Identifier(text) ==
  Node("kUnqualifiedId", "", <<Leaf("SymbolIdentifier", text)>>)

\* "int"
PrimitiveType ==
  Node("kDataType", "", <<Node("kDataTypePrimitive", "", <<Leaf("TK_int", "int")>>)>>)

\* a user-defined type named by one identifier
NamedType(id) == Node("kDataType", "", <<Identifier(id)>>)

\* "<type> <name>;"
DataDeclaration(type, name) ==
  Node("kDataDeclaration", "",
       <<Node("kInstantiationBase", "",
              <<type,
                Node("kGateInstanceRegisterVariableList", "",
                     <<Node("kRegisterVariable", name,
                            <<Leaf("SymbolIdentifier", name)>>)>>)>>)>>)

\* "<type> <name>();"
InstanceDeclaration(type, name) ==
  Node("kDataDeclaration", "",
       <<Node("kInstantiationBase", "",
              <<type,
                Node("kGateInstanceRegisterVariableList", "",
                     <<Node("kGateInstance", name,
                            <<Leaf("SymbolIdentifier", name),
                              Node("kParenGroup", "", <<>>)>>)>>)>>)>>)

\* "wire <name>;": no type written is a kDataType subtree without leaves
NetDeclaration(name) ==
  Node("kNetDeclaration", "",
       <<Leaf("TK_wire", "wire"), Node("kDataType", "", <<>>),
         Node("kNetVariable", name, <<Leaf("SymbolIdentifier", name)>>)>>)

\* "function int <name>(); endfunction"
FunctionDeclaration(name) ==
  Node("kFunctionDeclaration", "",
       <<Node("kFunctionHeader", "", <<PrimitiveType, Identifier(name)>>)>>)

\* "task <name>; endtask"
TaskDeclaration(name) ==
  Node("kTaskDeclaration", "",
       <<Node("kTaskHeader", "", <<Identifier(name)>>)>>)

\* "extern function int <name>();"
FunctionPrototype(name) ==
  Node("kFunctionPrototype", "",
       <<Node("kFunctionHeader", "", <<PrimitiveType, Identifier(name)>>)>>)

\* "extern task <name>();"
TaskPrototype(name) ==
  Node("kTaskPrototype", "",
       <<Node("kTaskHeader", "", <<Identifier(name)>>)>>)

\* "<a>()"
FunctionCall(a) ==
  Node("kReferenceCallBase", "",
       <<Node("kFunctionCall", "",
              <<Node("kLocalRoot", "", <<Identifier(a)>>),
                Node("kParenGroup", "", <<>>)>>)>>)

QualifiedId(a, b) ==
  Node("kQualifiedId", "",
       <<Identifier(a), Leaf("TK_SCOPE_RES", "::"), Identifier(b)>>)

HierarchyExtension(b) ==
  Node("kHierarchyExtension", "", <<Leaf(".", "."), Identifier(b)>>)

\* "function int <outer>::<inner>(); <body> endfunction"
OutOfLineFunctionDeclaration(outer, inner, body) ==
  Node("kFunctionDeclaration", "",
       <<Node("kFunctionHeader", "",
              <<PrimitiveType, QualifiedId(outer, inner)>>),
         Node("kBlockItemStatementList", "", body)>>)

\* "task <outer>::<inner>(); <body> endtask"
OutOfLineTaskDeclaration(outer, inner, body) ==
  Node("kTaskDeclaration", "",
       <<Node("kTaskHeader", "", <<QualifiedId(outer, inner)>>),
         Node("kBlockItemStatementList", "", body)>>)

\* "<a>::<b>"
QualifiedReference(a, b) ==
  Node("kReferenceCallBase", "",
       <<Node("kReference", "",
              <<Node("kLocalRoot", "", <<QualifiedId(a, b)>>)>>)>>)

\* "<a>::<b>()"
QualifiedFunctionCall(a, b) ==
  Node("kReferenceCallBase", "",
       <<Node("kFunctionCall", "",
              <<Node("kLocalRoot", "", <<QualifiedId(a, b)>>),
                Node("kParenGroup", "", <<>>)>>)>>)

\* "<a>.<b>"
MemberReference(a, b) ==
  Node("kReferenceCallBase", "",
       <<Node("kReference", "",
              <<Node("kLocalRoot", "", <<Identifier(a)>>),
                HierarchyExtension(b)>>)>>)

\* "<a>::<b>.<c>"
QualifiedMemberReference(a, b, c) ==
  Node("kReferenceCallBase", "",
       <<Node("kReference", "",
              <<Node("kLocalRoot", "", <<QualifiedId(a, b)>>),
                HierarchyExtension(c)>>)>>)

\* The nodes that only group the tokens of a list or of a parenthesized
\* value (kParenGroup, kActualParameterByNameList, kExpression) are left out
\* of the parameter and port lists below: the builder passes through them.
Number(text) == Leaf("TK_DecNumber", text)

\* ".<name>(<value>)" in a parameter list
ParamByName(name, value) ==
  Node("kParamByName", "",
       <<Leaf(".", "."), Leaf("SymbolIdentifier", name), value>>)

\* "<id>#(<params>)"
ParameterizedId(id, params) ==
  Node("kUnqualifiedId", "",
       <<Leaf("SymbolIdentifier", id),
         Node("kActualParameterList", "", params)>>)

\* a user-defined type named by that id
TypeOf(id) == Node("kDataType", "", <<id>>)

\* "<a>::<b>" and "<a>::<b>::<c>" over ids that may carry parameters
Scoped(a, b) ==
  Node("kQualifiedId", "", <<a, Leaf("TK_SCOPE_RES", "::"), b>>)

\* "<a>" as an expression
Reference(a) ==
  Node("kReferenceCallBase", "",
       <<Node("kReference", "",
              <<Node("kLocalRoot", "", <<Identifier(a)>>)>>)>>)

\* ".<name>(<expression>)" in a port list
ActualNamedPort(name, expression) ==
  Node("kActualNamedPort", "",
       <<Leaf(".", "."), Leaf("SymbolIdentifier", name), expression>>)

\* "<type> <name>(<ports>);"
InstanceWithPorts(type, name, ports) ==
  Node("kDataDeclaration", "",
       <<Node("kInstantiationBase", "",
              <<type,
                Node("kGateInstanceRegisterVariableList", "",
                     <<Node("kGateInstance", name,
                            <<Leaf("SymbolIdentifier", name),
                              Node("kPortActualList", "", ports)>>)>>)>>)>>)

\* "parameter int <name> = 0"
ParamDeclaration(name) ==
  Node("kParamDeclaration", "",
       <<Leaf("TK_parameter", "parameter"),
         Node("kParamType", "",
              <<Node("kTypeInfo", "",
                     <<Node("kDataTypePrimitive", "", <<Leaf("TK_int", "int")>>)>>),
                Leaf("SymbolIdentifier", name)>>),
         Leaf("=", "="), Number("0")>>)

\* "input <name>"
PortDeclaration(name) ==
  Node("kPortDeclaration", "",
       <<Leaf("TK_input", "input"), Node("kDataType", "", <<>>),
         Identifier(name)>>)

\* "#(<params>) (<ports>)" ahead of the items of a module or class
Header(params, ports) ==
  Node("kModuleHeader", "",
       <<Node("kFormalParameterListDeclaration", "", params),
         Node("kPortDeclarationList", "", ports)>>)

ClassDeclaration(name, body) == Node("kClassDeclaration", name, body)
PackageDeclaration(name, body) == Node("kPackageDeclaration", name, body)
ModuleDeclaration(name, body) == Node("kModuleDeclaration", name, body)

\* "begin [: <label>] <items> end" in a generate construct
GenerateBlock(label, items) == Node("kGenerateBlock", label, items)

\* "if (1) <body>" and "if (1) <body> else <else_body>" as module items; the
\* condition holds no identifier and is left out.
GenerateIf(body) ==
  Node("kConditionalGenerateConstruct", "",
       <<Node("kGenerateIfClause", "", <<body>>)>>)

GenerateIfElse(body, else_body) ==
  Node("kConditionalGenerateConstruct", "",
       <<Node("kGenerateIfClause", "", <<body>>),
         Node("kGenerateElseClause", "", <<else_body>>)>>)

\* The include directive of that file name, written as in the source, quotes
\* included (the texts of the model leave the grave accent of the directive
\* out).
IncludeDirective(filename) ==
  Node("kPreprocessorInclude", "",
       <<Leaf("PP_include", "include"), Leaf("TK_StringLiteral", filename)>>)

\* "initial <statement>": a statement holding one reference expression
InitialStatement(reference) == Node("kInitialStatement", "", <<reference>>)

\* The definitions of C::g at the root of a translation unit.
DefinitionTexts ==
  { <<>>, <<"function int C::g(); int x; endfunction">>,
    <<"task C::g(); int x; endtask">> }

\* VerilogSourceFile::Parse on the texts of the projects below: the syntax
\* tree of an item.
ParseItem(text) ==
  CASE text = "int f;" -> DataDeclaration(PrimitiveType, "f")
    [] text = "int c;" -> DataDeclaration(PrimitiveType, "c")
    [] text = "C c;" -> DataDeclaration(NamedType("C"), "c")
    [] text = "wire c;" -> NetDeclaration("c")
    [] text = "function int f(); endfunction" -> FunctionDeclaration("f")
    [] text = "initial f();" -> InitialStatement(FunctionCall("f"))
    [] text = "initial c.f = 0;" -> InitialStatement(MemberReference("c", "f"))
    [] text = "initial m.f = 0;" -> InitialStatement(MemberReference("m", "f"))
    [] text = "task f; endtask" -> TaskDeclaration("f")
    [] text = "initial p::f();" ->
         InitialStatement(QualifiedFunctionCall("p", "f"))
    [] text = "initial q::f = 0;" ->
         InitialStatement(QualifiedReference("q", "f"))
    [] text = "initial p::c.f = 0;" ->
         InitialStatement(QualifiedMemberReference("p", "c", "f"))
    [] text = "class C; endclass" -> ClassDeclaration("C", <<>>)
    [] text = "int C;" -> DataDeclaration(PrimitiveType, "C")
    [] text = "int a;" -> DataDeclaration(PrimitiveType, "a")
    [] text = "int b;" -> DataDeclaration(PrimitiveType, "b")
    [] text = "include \"a.svh\"" -> IncludeDirective("\"a.svh\"")
    [] text = "include \"b.svh\"" -> IncludeDirective("\"b.svh\"")
    [] text = "int x;" -> DataDeclaration(PrimitiveType, "x")
    [] text = "C u();" -> InstanceDeclaration(NamedType("C"), "u")
    [] text = "initial u.x = 0;" -> InitialStatement(MemberReference("u", "x"))
    [] text = "class C; extern function int g(); endclass" ->
         ClassDeclaration("C", <<FunctionPrototype("g")>>)
    [] text = "class C; extern task g(); endclass" ->
         ClassDeclaration("C", <<TaskPrototype("g")>>)
    [] text = "function int C::g(); int x; endfunction" ->
         OutOfLineFunctionDeclaration("C", "g",
                                      <<DataDeclaration(PrimitiveType, "x")>>)
    [] text = "task C::g(); int x; endtask" ->
         OutOfLineTaskDeclaration("C", "g",
                                  <<DataDeclaration(PrimitiveType, "x")>>)
    [] text = "A#(.B(1)) x;" ->
         DataDeclaration(
           TypeOf(ParameterizedId("A", <<ParamByName("B", Number("1"))>>)),
           "x")
    [] text = "A#(.B(1))::C#(.D(2)) x;" ->
         DataDeclaration(
           TypeOf(Scoped(
             ParameterizedId("A", <<ParamByName("B", Number("1"))>>),
             ParameterizedId("C", <<ParamByName("D", Number("2"))>>))),
           "x")
    [] text = "A#(.B(1))::C#(.D(E#(.F(0))))::G x;" ->
         DataDeclaration(
           TypeOf(Node("kQualifiedId", "",
             <<ParameterizedId("A", <<ParamByName("B", Number("1"))>>),
               Leaf("TK_SCOPE_RES", "::"),
               ParameterizedId("C",
                 <<ParamByName("D",
                     TypeOf(ParameterizedId(
                              "E", <<ParamByName("F", Number("0"))>>)))>>),
               Leaf("TK_SCOPE_RES", "::"),
               Identifier("G")>>)),
           "x")
    [] text = "T u(.a(x), .b(y));" ->
         InstanceWithPorts(NamedType("T"), "u",
                           <<ActualNamedPort("a", Reference("x")),
                             Leaf(",", ","),
                             ActualNamedPort("b", Reference("y"))>>)
    [] text = "T#(.P(1)) u(.a(x));" ->
         InstanceWithPorts(
           TypeOf(ParameterizedId("T", <<ParamByName("P", Number("1"))>>)),
           "u", <<ActualNamedPort("a", Reference("x"))>>)
    [] text = "initial A#(.B(1))::f();" ->
         InitialStatement(
           Node("kReferenceCallBase", "",
                <<Node("kFunctionCall", "",
                       <<Node("kLocalRoot", "",
                              <<Scoped(ParameterizedId(
                                         "A", <<ParamByName("B", Number("1"))>>),
                                       Identifier("f"))>>),
                         Node("kParenGroup", "", <<>>)>>)>>))
    [] text = "wire x;" -> NetDeclaration("x")
    [] text = "if (1) begin end" -> GenerateIf(GenerateBlock("", <<>>))
    [] text = "if (1) begin : g end" -> GenerateIf(GenerateBlock("g", <<>>))
    [] text = "if (1) begin end else begin end" ->
         GenerateIfElse(GenerateBlock("", <<>>), GenerateBlock("", <<>>))
    [] text = "if (1) begin end else if (1) wire x;" ->
         GenerateIfElse(GenerateBlock("", <<>>),
                        GenerateIf(NetDeclaration("x")))
    [] text = "if (1) begin if (1) begin end end" ->
         GenerateIf(GenerateBlock("", <<GenerateIf(GenerateBlock("", <<>>))>>))
    [] text = "module m; if (1) begin end endmodule" ->
         ModuleDeclaration("m", <<GenerateIf(GenerateBlock("", <<>>))>>)
    [] text = "module T #(parameter int P = 0) (input a, input b); endmodule" ->
         ModuleDeclaration("T", <<Header(<<ParamDeclaration("P")>>,
                                          <<PortDeclaration("a"),
                                            PortDeclaration("b")>>)>>)
    [] text = "class A #(parameter int B = 0); endclass" ->
         ClassDeclaration("A", <<Header(<<ParamDeclaration("B")>>, <<>>)>>)
    [] text = "class C; int f; endclass" ->
         ClassDeclaration("C", <<DataDeclaration(PrimitiveType, "f")>>)
    [] text = "package p; int f; endpackage" ->
         PackageDeclaration("p", <<DataDeclaration(PrimitiveType, "f")>>)
    [] text = "package p; C c; endpackage" ->
         PackageDeclaration("p", <<DataDeclaration(NamedType("C"), "c")>>)

\* The syntax tree of the translation unit
\* "<head texts> module m; <body texts> endmodule".
Parse(source) ==
  Node("kDescriptionList", "",
       [i \in 1..Len(source.head) |-> ParseItem(source.head[i])]
       \o <<ModuleDeclaration("m", [i \in 1..Len(source.body) |->
                                      ParseItem(source.body[i])])>>)

----------------------------------------------------------------------------
\* Include files.

\* The include files of the project, by name: "" where the file cannot be
\* opened, otherwise its text.
IncludeNames == {"a.svh", "b.svh"}

NoFiles == [n \in IncludeNames |-> ""]

\* absl::StripPrefix and absl::StripSuffix, on the texts a file name token
\* can have here: a name with a quote at either end, both or none.
FileNameTexts ==
  UNION { {n, "\"" \o n, n \o "\"", "\"" \o n \o "\""} : n \in IncludeNames }

StripPrefix(text, prefix) ==
  IF \E rest \in FileNameTexts : prefix \o rest = text
  THEN CHOOSE rest \in FileNameTexts : prefix \o rest = text
  ELSE text

StripSuffix(text, suffix) ==
  IF \E rest \in FileNameTexts : rest \o suffix = text
  THEN CHOOSE rest \in FileNameTexts : rest \o suffix = text
  ELSE text

StripOuterQuotes(text) == StripSuffix(StripPrefix(text, "\""), "\"")

\* VerilogSourceFile::Parse on an include file: its status and syntax tree.
ParseFile(file) ==
  CASE file.text = "module m; if (1) begin end endmodule" ->
         [ok |-> TRUE, status |-> <<>>,
          syntax_tree |->
            Node("kDescriptionList", "",
                 <<ParseItem("module m; if (1) begin end endmodule")>>)]
    [] file.text = "int a;" ->
         [ok |-> TRUE, status |-> <<>>,
          syntax_tree |-> Node("kDescriptionList", "", <<ParseItem("int a;")>>)]
    [] file.text = "int b; include \"a.svh\"" ->
         [ok |-> TRUE, status |-> <<>>,
          syntax_tree |-> Node("kDescriptionList", "",
                               <<ParseItem("int b;"),
                                 ParseItem("include \"a.svh\"")>>)]
    [] file.text = "int b; include \"b.svh\"" ->
         [ok |-> TRUE, status |-> <<>>,
          syntax_tree |-> Node("kDescriptionList", "",
                               <<ParseItem("int b;"),
                                 ParseItem("include \"b.svh\"")>>)]
    [] OTHER ->
         [ok |-> FALSE,
          status |-> Status("kInvalidArgument", "syntax error", file.path, 0,
                            NullRef),
          syntax_tree |-> <<>>]

\* VerilogProject::OpenIncludedFile: the file of that name, or a status.
OpenIncludedFile(project_, filename) ==
  IF filename \in DOMAIN project_.files /\ project_.files[filename] # ""
  THEN [ok |-> TRUE, status |-> <<>>,
        file |-> [path |-> filename, text |-> project_.files[filename]]]
  ELSE [ok |-> FALSE,
        status |-> Status("kNotFound", "Unable to find include file",
                          filename, 0, NullRef),
        file |-> <<>>]

----------------------------------------------------------------------------
\* SymbolTable::Builder

\* A pointer to a reference node held by the builder: a node of the tree at
\* that level of the reference_builders_ stack (level > 0), or a node of a
\* tree that was moved into a scope (level = 0: tree number ref of
\* local_references_to_bind of that scope).  The node itself does not move
\* when its tree is committed, so the pointer goes on designating it.
NullBranch == [level |-> 0, scope |-> 0, ref |-> 0, node |-> 0]

BuilderNode(level, node) == [level |-> level, scope |-> 0, ref |-> 0, node |-> node]

\* The pointers to the nodes of the tree on top of the stack, once that tree
\* is moved to the end of the references of the scope.
Committed(b, pointer, scope) ==
  IF pointer.level # 0 /\ pointer.level = Len(b.reference_builders_)
  THEN [level |-> 0, scope |-> scope,
        ref |-> Len(b.st[scope].local_references_to_bind) + 1,
        node |-> pointer.node]
  ELSE pointer

\* Builder::Builder: the fields of a builder that starts at the root.
\* declaration_type_info_ is the pointer (null) together with the local
\* DeclarationTypeInfo it points to (info); context is the stack of
\* enclosing syntax nodes of TreeContextVisitor, innermost first, each with
\* its tag and whether it is the last child of its parent (is_last: the same
\* of the symbol being visited); ret is the node returned by the last
\* Emplace; dead records a failed CHECK, and relocated that it was the one
\* of CheckedNewChildReferenceNode; trace is the history of the walk (see
\* Traced).
Builder(source, st, project_) ==
  [source_ |-> source.path, project_ |-> project_, including |-> <<>>,
   st |-> st, current_scope_ |-> 1, diagnostics_ |-> <<>>,
   declaration_type_info_ |-> [null |-> TRUE, info |-> DeclarationTypeInfo],
   reference_builders_ |-> <<>>, reference_branch_point_ |-> NullBranch,
   last_hierarchy_operator_ |-> "", context |-> <<>>, is_last |-> TRUE,
   ret |-> 0, dead |-> FALSE, relocated |-> FALSE, trace |-> <<>>]

\* SyntaxTreeContext::DirectParentsAre
DirectParentsAre(b, tags) ==
  /\ Len(b.context) >= Len(tags)
  /\ \A i \in 1..Len(tags) : b.context[i].tag = tags[i]

DirectParentIs(b, tag) == DirectParentsAre(b, <<tag>>)

\* SyntaxTreeContext::NearestParentMatching: the innermost enclosing node
\* with one of the tags; its tag "" is the null pointer.
NearestParentMatching(b, tags) ==
  LET hits == {i \in 1..Len(b.context) : b.context[i].tag \in tags}
  IN  IF hits = {} THEN [tag |-> ""]
      ELSE [tag |-> b.context[CHOOSE i \in hits : \A j \in hits : i <= j].tag]

DiagnoseSymbolAlreadyExists(b, name) ==
  [b EXCEPT !.diagnostics_ =
     Append(@, Status("kAlreadyExists", "is already defined in the scope",
                      name, b.current_scope_, NullRef))]

EmplaceElementInCurrentScope(b, element, name, type) ==
  LET p  == TryEmplace(b.st, b.current_scope_, name,
                       SymbolInfo(type, b.source_, element.tag,
                                  DeclarationTypeInfo))
      b1 == [b EXCEPT !.st = p.st, !.ret = p.node]
  IN  IF ~p.inserted THEN DiagnoseSymbolAlreadyExists(b1, name) ELSE b1

EmplaceTypedElementInCurrentScope(b, element, name, type) ==
  IF b.declaration_type_info_.null
  THEN [b EXCEPT !.dead = TRUE]        \* ABSL_DIE_IF_NULL
  ELSE LET p  == TryEmplace(b.st, b.current_scope_, name,
                            SymbolInfo(type, b.source_, element.tag,
                                       b.declaration_type_info_.info))
           b1 == [b EXCEPT !.st = p.st, !.ret = p.node]
       IN  IF ~p.inserted THEN DiagnoseSymbolAlreadyExists(b1, name) ELSE b1

\* CaptureDependentReference::CaptureDependentReference
CaptureBegin(b) ==
  [b EXCEPT !.reference_builders_ = Append(@, <<>>)]

\* A capture that commits its tree to the root scope.
CaptureEndAtRoot(b) ==
  LET top == Len(b.reference_builders_)
      ref == b.reference_builders_[top]
      committed ==
        IF ref # <<>>
        THEN [b EXCEPT !.st[1].local_references_to_bind = Append(@, ref),
                       !.reference_branch_point_ = Committed(b, @, 1)]
        ELSE b
  IN  [committed EXCEPT !.reference_builders_ = SubSeq(@, 1, top - 1)]

\* A capture that commits its tree whether or not it is empty.
CaptureEndAlways(b) ==
  LET top == Len(b.reference_builders_)
      ref == b.reference_builders_[top]
      committed ==
        [b EXCEPT !.st[b.current_scope_].local_references_to_bind =
                      Append(@, ref),
                  !.reference_branch_point_ =
                      Committed(b, @, b.current_scope_)]
  IN  [committed EXCEPT !.reference_builders_ = SubSeq(@, 1, top - 1)]

\* CaptureDependentReference::~CaptureDependentReference
CaptureEnd(b) ==
  LET top == Len(b.reference_builders_)
      ref == b.reference_builders_[top]
      committed ==
        IF ref # <<>>
        THEN [b EXCEPT !.st[b.current_scope_].local_references_to_bind =
                           Append(@, ref),
                       !.reference_branch_point_ =
                           Committed(b, @, b.current_scope_)]
        ELSE b
  IN  [committed EXCEPT !.reference_builders_ = SubSeq(@, 1, top - 1)]

\* The component a freshly captured tree is headed by, or grows by.
InferReferenceType(b) ==
  LET ref == b.reference_builders_[Len(b.reference_builders_)]
  IN  IF ref = <<>> \/ b.last_hierarchy_operator_ = ""
      THEN IF \/ DirectParentsAre(b, <<"kUnqualifiedId", "kQualifiedId",
                                       "kFunctionHeader">>)
              \/ DirectParentsAre(b, <<"kUnqualifiedId", "kQualifiedId",
                                       "kTaskHeader">>)
           THEN "kImmediate"
           ELSE "kUnqualified"
      ELSE IF DirectParentIs(b, "kParamByName") THEN "kDirectMember"
      ELSE IF b.last_hierarchy_operator_ = "." THEN "kMemberOfTypeOfParent"
      ELSE "kDirectMember"

InferMetaType(b) ==
  LET ref == b.reference_builders_[Len(b.reference_builders_)]
  IN  IF DirectParentsAre(b, <<"kUnqualifiedId", "kQualifiedId",
                               "kFunctionHeader">>)
      THEN (IF ref = <<>> THEN "kClass" ELSE "kFunction")
      ELSE IF DirectParentsAre(b, <<"kUnqualifiedId", "kQualifiedId",
                                    "kTaskHeader">>)
      THEN (IF ref = <<>> THEN "kClass" ELSE "kTask")
      ELSE IF DirectParentIs(b, "kActualNamedPort")
      THEN "kDataNetVariableInstance"
      ELSE IF DirectParentIs(b, "kParamByName") THEN "kParameter"
      ELSE IF DirectParentsAre(b, <<"kUnqualifiedId", "kLocalRoot",
                                    "kFunctionCall">>)
      THEN "kCallable"
      ELSE IF /\ DirectParentsAre(b, <<"kUnqualifiedId", "kQualifiedId",
                                       "kLocalRoot", "kFunctionCall">>)
              \* qualified_id->children().back() == unqualified_id
              /\ b.context[1].last
      THEN "kCallable"
      ELSE IF DirectParentsAre(b, <<"kUnqualifiedId", "kMethodCallExtension">>)
      THEN "kCallable"
      ELSE "kUnspecified"

\* The tree a pointer of the builder leads into.
TreeAt(b, pointer) ==
  IF pointer.level # 0 THEN b.reference_builders_[pointer.level]
  ELSE b.st[pointer.scope].local_references_to_bind[pointer.ref]

SetTreeAt(b, pointer, tree) ==
  IF pointer.level # 0
  THEN [b EXCEPT !.reference_builders_[pointer.level] = tree]
  ELSE [b EXCEPT !.st[pointer.scope].local_references_to_bind[pointer.ref] =
                   tree]

\* CheckedNewChildReferenceNode(parent, component): the CHECK_EQ fails when
\* the storage of the children moved and the new child is not the only one.
CheckedNewChildReferenceNode(b, parent, component) ==
  LET tree == TreeAt(b, parent)
      added == SetTreeAt(b, parent, NewChild(tree, parent.node, component))
  IN  IF Reallocates(tree, parent.node)
         /\ Len(RefChildren(tree, parent.node)) + 1 > 1
      THEN [added EXCEPT !.dead = TRUE, !.relocated = TRUE]
      ELSE added

\* verible::SearchSyntaxTree on a tag (FindAllNamedParams,
\* FindAllActualNamedPort): the number of nodes of the subtree with that tag.
RECURSIVE FindAll(_, _)
FindAll(symbol, tag) ==
  LET Sum[i \in 0..Len(symbol.children)] ==
        IF i = 0 THEN 0 ELSE Sum[i - 1] + FindAll(symbol.children[i], tag)
  IN  (IF ~symbol.leaf /\ symbol.tag = tag THEN 1 ELSE 0)
      + Sum[Len(symbol.children)]

\* The history of the walk: a named parameter or named port (the tag of the
\* node the identifier sits in) was attached under that reference node.
Attached(b, parent) ==
  [b EXCEPT !.trace =
     Append(@, [tag |-> b.context[1].tag, within |-> "",
                scope_in |-> b.current_scope_, scope_out |-> b.current_scope_,
                branch_in |-> parent, branch_out |-> parent,
                source_in |-> b.source_, source_out |-> b.source_])]

HandleIdentifier(b, leaf) ==
  CASE DirectParentIs(b, "kParamType") ->
         EmplaceTypedElementInCurrentScope(b, leaf, leaf.text, "kParameter")
    [] \/ DirectParentsAre(b, <<"kUnqualifiedId", "kPortDeclaration">>)
       \/ DirectParentsAre(b, <<"kUnqualifiedId",
                                "kDataTypeImplicitBasicIdDimensions",
                                "kPortItem">>) ->
         EmplaceTypedElementInCurrentScope(b, leaf, leaf.text,
                                           "kDataNetVariableInstance")
    [] DirectParentsAre(b, <<"kUnqualifiedId", "kFunctionHeader">>) ->
         LET decl_syntax ==
               NearestParentMatching(b, {"kFunctionDeclaration",
                                         "kFunctionPrototype"})
             e == EmplaceTypedElementInCurrentScope(b, decl_syntax, leaf.text,
                                                    "kFunction")
         IN  IF decl_syntax.tag = "" THEN b
             ELSE [e EXCEPT !.current_scope_ = IF e.dead THEN @ ELSE e.ret]
    [] DirectParentsAre(b, <<"kUnqualifiedId", "kTaskHeader">>) ->
         LET decl_syntax ==
               NearestParentMatching(b, {"kTaskDeclaration", "kTaskPrototype"})
             e == EmplaceElementInCurrentScope(b, decl_syntax, leaf.text,
                                               "kTask")
         IN  IF decl_syntax.tag = "" THEN b
             ELSE [e EXCEPT !.current_scope_ = e.ret]
    [] DirectParentIs(b, "kGateInstance") -> b
    [] b.reference_builders_ = <<>> -> b
    [] \/ DirectParentIs(b, "kActualNamedPort")
       \/ DirectParentIs(b, "kParamByName") ->
         IF b.reference_branch_point_ = NullBranch
         THEN [b EXCEPT !.dead = TRUE]     \* ABSL_DIE_IF_NULL
         ELSE Attached(
                CheckedNewChildReferenceNode(
                  b, b.reference_branch_point_,
                  ReferenceComponent(leaf.text, InferReferenceType(b),
                                     InferMetaType(b), 0)),
                b.reference_branch_point_)
    [] OTHER ->
         [b EXCEPT
            !.reference_builders_[Len(b.reference_builders_)] =
               PushReferenceComponent(
                 @, ReferenceComponent(leaf.text, InferReferenceType(b),
                                       InferMetaType(b), 0)),
            !.reference_branch_point_ =
               IF @ = NullBranch
               THEN BuilderNode(Len(b.reference_builders_), 1) ELSE @]

\* Builder::Visit(const SyntaxTreeLeaf&)
VisitLeaf(b, leaf) ==
  IF leaf.tag = "SymbolIdentifier"
  THEN HandleIdentifier(b, leaf)
  ELSE IF leaf.tag \in {"TK_SCOPE_RES", "."}
  THEN [b EXCEPT !.last_hierarchy_operator_ = leaf.tag]
  ELSE b

RECURSIVE Visit(_, _)
RECURSIVE VisitChildren(_, _, _)

\* TreeContextVisitor::Visit(node): the children under the node's context.
Descend(b, node) ==
  [VisitChildren([b EXCEPT !.context =
                    <<[tag |-> node.tag, last |-> b.is_last]>> \o @],
                 node.children, 1)
     EXCEPT !.context = Tail(@)]

\* Builder::Descend(node, scope): enters scope for the duration of the call.
DescendInScope(b, node, scope) ==
  LET saved == b.current_scope_
      inner == Descend([b EXCEPT !.current_scope_ = scope], node)
  IN  [inner EXCEPT !.current_scope_ = saved]

DeclareScopedElementAndDescend(b, element, name, type) ==
  LET e == EmplaceElementInCurrentScope(b, element, name, type)
  IN  DescendInScope(e, element, e.ret)

\* The name of the scope of a generate clause with that body, and the
\* builder after the current scope handed it out.
GetScopeNameFromGenerateBody(b, body) ==
  IF body.tag = "kGenerateBlock" /\ body.text # ""
  THEN [b |-> b, name |-> body.text]
  ELSE [b |-> [b EXCEPT !.st[b.current_scope_] =
                 CreateAnonymousScope(@, "generate").info],
        name |-> CreateAnonymousScope(b.st[b.current_scope_], "generate").name]

DeclareNamedGenerate(named, generate_clause) ==
  DeclareScopedElementAndDescend(named.b, generate_clause, named.name,
                                 "kGenerate")

\* The body is the last child of the clause.
DeclareGenerateIf(b, generate_if) ==
  DeclareNamedGenerate(
    GetScopeNameFromGenerateBody(
      b, generate_if.children[Len(generate_if.children)]),
    generate_if)

DeclareGenerateElse(b, generate_else) ==
  IF generate_else.children[Len(generate_else.children)].tag
       = "kConditionalGenerateConstruct"
  THEN Descend(b, generate_else.children[Len(generate_else.children)])
  ELSE DeclareNamedGenerate(
         GetScopeNameFromGenerateBody(
           b, generate_else.children[Len(generate_else.children)]),
         generate_else)

DeclareModule(b, module) ==
  DeclareScopedElementAndDescend(b, module, module.text, "kModule")

DeclarePackage(b, package) ==
  DeclareScopedElementAndDescend(b, package, package.text, "kPackage")

DeclareClass(b, class_node) ==
  DeclareScopedElementAndDescend(b, class_node, class_node.text, "kClass")

\* A declaration that leaves the current scope where its header put it.
DeclareFunctionStaying(b, function_node) == Descend(b, function_node)

\* The scope slot is reserved here and set in HandleIdentifier.
DeclareFunction(b, function_node) ==
  LET saved == b.current_scope_
      inner == Descend(b, function_node)
  IN  [inner EXCEPT !.current_scope_ = saved]

DeclareTask(b, task_node) ==
  LET saved == b.current_scope_
      inner == Descend(b, task_node)
  IN  [inner EXCEPT !.current_scope_ = saved]

\* A fresh local DeclarationTypeInfo is the capture slot during the descent.
SetupFunctionHeader(b, function_header) ==
  LET saved == b.declaration_type_info_
      inner == Descend([b EXCEPT !.declaration_type_info_ =
                            [null |-> FALSE, info |-> DeclarationTypeInfo]],
                       function_header)
  IN  [inner EXCEPT !.declaration_type_info_ = saved]

DeclareParameter(b, param_decl_node) ==
  LET saved == b.declaration_type_info_
      inner == Descend([b EXCEPT !.declaration_type_info_ =
                            [null |-> FALSE, info |-> DeclarationTypeInfo]],
                       param_decl_node)
  IN  [inner EXCEPT !.declaration_type_info_ = saved]

DeclareData(b, data_decl_node) ==
  LET saved == b.declaration_type_info_
      inner == Descend([b EXCEPT !.declaration_type_info_ =
                            [null |-> FALSE, info |-> DeclarationTypeInfo]],
                       data_decl_node)
  IN  [inner EXCEPT !.declaration_type_info_ = saved]

DeclareNet(b, net_variable) ==
  LET e == EmplaceTypedElementInCurrentScope(b, net_variable, net_variable.text,
                                             "kDataNetVariableInstance")
  IN  Descend(e, net_variable)

DeclareRegister(b, reg_variable) ==
  LET e == EmplaceTypedElementInCurrentScope(b, reg_variable, reg_variable.text,
                                             "kDataNetVariableInstance")
  IN  Descend(e, reg_variable)

DescendReferenceExpression(b, reference) ==
  CaptureEnd(Descend(CaptureBegin(b), reference))

DescendDataType(b, data_type_node) ==
  LET captured == CaptureBegin(b)
      saved_info == captured.declaration_type_info_
      saved_branch == captured.reference_branch_point_
      inner == Descend([captured EXCEPT !.declaration_type_info_.null = TRUE,
                                        !.reference_branch_point_ = NullBranch],
                       data_type_node)
      restored == [inner EXCEPT !.declaration_type_info_ = saved_info,
                                !.reference_branch_point_ = saved_branch]
      ref == restored.reference_builders_[Len(restored.reference_builders_)]
      scope == restored.current_scope_
      \* where the captured tree is about to be committed
      last_leaf == [scope |-> scope,
                    ref |-> Len(restored.st[scope].local_references_to_bind) + 1,
                    node |-> LastLeaf(ref)]
      typed ==
        IF ~restored.declaration_type_info_.null
        THEN [restored EXCEPT !.declaration_type_info_.info =
                [syntax_origin |->
                   IF HasLeaf(data_type_node) THEN TRUE ELSE @.syntax_origin,
                 user_defined_type |->
                   IF ref # <<>> THEN last_leaf ELSE @.user_defined_type]]
        ELSE restored
  IN  IF inner.dead THEN inner ELSE CaptureEnd(typed)

\* Pre-allocates the siblings that the named parameters will be.
DescendActualParameterList(b, node) ==
  IF b.reference_branch_point_ # NullBranch
  THEN LET num_params == FindAll(node, "kParamByName")
           parent == b.reference_branch_point_
       IN  Descend(SetTreeAt(b, parent,
                             Reserve(TreeAt(b, parent), parent.node,
                                     num_params)),
                   node)
  ELSE Descend(b, node)

\* Pre-allocates the siblings that the named ports will be.
DescendPortActualList(b, node) ==
  IF b.reference_branch_point_ # NullBranch
  THEN LET num_ports == FindAll(node, "kActualNamedPort")
           parent == b.reference_branch_point_
       IN  Descend(SetTreeAt(b, parent,
                             Reserve(TreeAt(b, parent), parent.node,
                                     num_ports)),
                   node)
  ELSE Descend(b, node)

\* Builder::DeclareInstance: the instance, and a self-reference that is
\* resolved to it from the start.
DeclareInstance(b, instance) ==
  LET e == EmplaceTypedElementInCurrentScope(b, instance, instance.text,
                                             "kDataNetVariableInstance")
      captured == CaptureBegin(e)
      top == Len(captured.reference_builders_)
      pushed ==
        [captured EXCEPT
           !.reference_builders_[top] =
              PushReferenceComponent(
                @, ReferenceComponent(instance.text, "kUnqualified",
                                      "kDataNetVariableInstance", e.ret)),
           !.reference_branch_point_ = BuilderNode(top, 1)]
      inner == Descend(pushed, instance)
  IN  IF e.dead THEN e
      ELSE CaptureEnd([inner EXCEPT !.reference_branch_point_ =
                                      captured.reference_branch_point_])

\* DependentReferences::ResolveOnlyBaseLocally on a tree being captured.
ResolveOnlyBaseLocally(st, ref, context) ==
  LET base == ref[1]
      found == Find(st, context, base.identifier)
  IN  IF base.ref_type \notin {"kUnqualified", "kImmediate"}
      THEN [dead |-> TRUE, ok |-> FALSE, status |-> <<>>, ref |-> ref,
            resolved |-> 0]                              \* CHECK
      ELSE IF found = 0
      THEN [dead |-> FALSE, ok |-> FALSE,
            status |-> DiagnoseMemberSymbolResolutionFailure(
                         base.identifier, context, NullRef),
            ref |-> ref, resolved |-> 0]
      ELSE IF ~MatchesMetatype(base, st[found].type)
      THEN [dead |-> FALSE, ok |-> FALSE,
            status |-> MetatypeMismatch(base, found, NullRef),
            ref |-> ref, resolved |-> 0]
      ELSE [dead |-> FALSE, ok |-> TRUE, status |-> <<>>,
            ref |-> [ref EXCEPT ![1].resolved_symbol = found],
            resolved |-> found]

\* Builder::LookupOrInjectOutOfLineDefinition, once the qualified id has been
\* captured: the builder after the call (its capture committed), and the
\* StatusOr it returns.
InjectOutOfLineDefinition(captured, type, definition_syntax) ==
  LET top == Len(captured.reference_builders_)
      ref == captured.reference_builders_[top]
      failed(builder, status) ==
        [b |-> CaptureEnd(builder), ok |-> FALSE, status |-> status,
         inner_symbol |-> 0]
  IN  IF captured.dead
      THEN [b |-> captured, ok |-> FALSE, status |-> <<>>, inner_symbol |-> 0]
      ELSE IF ref = <<>> \/ Len(RefChildren(ref, 1)) # 1
      THEN [b |-> [captured EXCEPT !.dead = TRUE], ok |-> FALSE,
            status |-> <<>>, inner_symbol |-> 0]         \* CHECK_EQ
      ELSE
        LET outer == ResolveOnlyBaseLocally(captured.st, ref,
                                            captured.current_scope_)
            based == [captured EXCEPT !.reference_builders_[top] = outer.ref]
            inner_node == RefChildren(ref, 1)[1]
            inner_key == ref[inner_node].identifier
            p == TryEmplace(captured.st, outer.resolved, inner_key,
                            SymbolInfo(type, captured.source_,
                                       definition_syntax.tag,
                                       DeclarationTypeInfo))
            emplaced == [based EXCEPT !.st = p.st]
        IN  IF outer.dead
            THEN [b |-> [captured EXCEPT !.dead = TRUE], ok |-> FALSE,
                  status |-> <<>>, inner_symbol |-> 0]
            ELSE IF ~outer.ok THEN failed(based, outer.status)
            ELSE IF ~p.inserted /\ p.st[p.node].type # type
            THEN failed(emplaced,
                        Status("kAlreadyExists",
                               "cannot be redefined out-of-line as a",
                               inner_key, p.node, NullRef))
            ELSE
              LET diagnosed ==
                    IF p.inserted
                    THEN [emplaced EXCEPT !.diagnostics_ =
                            Append(@, DiagnoseMemberSymbolResolutionFailure(
                                        inner_key, outer.resolved, NullRef))]
                    ELSE emplaced
                  bound ==
                    [diagnosed EXCEPT
                       !.reference_builders_[top][inner_node].resolved_symbol =
                          p.node]
              IN  [b |-> CaptureEnd(bound), ok |-> TRUE, status |-> <<>>,
                   inner_symbol |-> p.node]

\* Builder::LookupOrInjectOutOfLineDefinition
LookupOrInjectOutOfLineDefinition(b, qualified_id, type, definition_syntax) ==
  InjectOutOfLineDefinition(Descend(CaptureBegin(b), qualified_id), type,
                            definition_syntax)

\* An out-of-line definition that stays in the scope it is written in.
StayOutOfLineDefinition(inner_symbol_or_status, qualified_id) ==
  IF inner_symbol_or_status.b.dead THEN inner_symbol_or_status.b
  ELSE IF inner_symbol_or_status.ok
  THEN Descend(inner_symbol_or_status.b, qualified_id)
  ELSE [inner_symbol_or_status.b EXCEPT
          !.diagnostics_ = Append(@, inner_symbol_or_status.status)]

DescendThroughOutOfLineDefinitionStaying(b, qualified_id, type, decl_syntax) ==
  StayOutOfLineDefinition(
    LookupOrInjectOutOfLineDefinition(b, qualified_id, type, decl_syntax),
    qualified_id)

\* An out-of-line definition whose failure is not reported.
EnterOutOfLineDefinitionSilently(inner_symbol_or_status, qualified_id) ==
  IF inner_symbol_or_status.b.dead THEN inner_symbol_or_status.b
  ELSE IF inner_symbol_or_status.ok
  THEN Descend([inner_symbol_or_status.b EXCEPT
                  !.current_scope_ = inner_symbol_or_status.inner_symbol],
               qualified_id)
  ELSE inner_symbol_or_status.b

DescendThroughOutOfLineDefinitionSilently(b, qualified_id, type, decl_syntax) ==
  EnterOutOfLineDefinitionSilently(
    LookupOrInjectOutOfLineDefinition(b, qualified_id, type, decl_syntax),
    qualified_id)

\* Builder::DescendThroughOutOfLineDefinition, once the inner symbol has been
\* looked up: the rest of the definition, in its scope, or the diagnostic.
EnterOutOfLineDefinition(inner_symbol_or_status, qualified_id) ==
  IF inner_symbol_or_status.b.dead THEN inner_symbol_or_status.b
  ELSE IF inner_symbol_or_status.ok
  THEN Descend([inner_symbol_or_status.b EXCEPT
                  !.current_scope_ = inner_symbol_or_status.inner_symbol],
               qualified_id)
  ELSE [inner_symbol_or_status.b EXCEPT
          !.diagnostics_ = Append(@, inner_symbol_or_status.status)]

\* Builder::DescendThroughOutOfLineDefinition
DescendThroughOutOfLineDefinition(b, qualified_id, type, decl_syntax) ==
  EnterOutOfLineDefinition(
    LookupOrInjectOutOfLineDefinition(b, qualified_id, type, decl_syntax),
    qualified_id)

\* Builder::HandleQualifiedId: the name of an out-of-line definition when it
\* sits in a function or task header, a reference otherwise.
HandleQualifiedId(b, qualified_id) ==
  IF b.context[1].tag = "kFunctionHeader"
  THEN LET decl_syntax ==
             NearestParentMatching(b, {"kFunctionDeclaration",
                                       "kFunctionPrototype"})
       IN  IF decl_syntax.tag = "" THEN [b EXCEPT !.dead = TRUE]
           ELSE DescendThroughOutOfLineDefinition(b, qualified_id,
                                                  "kFunction", decl_syntax)
  ELSE IF b.context[1].tag = "kTaskHeader"
  THEN LET decl_syntax ==
             NearestParentMatching(b, {"kTaskDeclaration", "kTaskPrototype"})
       IN  IF decl_syntax.tag = "" THEN [b EXCEPT !.dead = TRUE]
           ELSE DescendThroughOutOfLineDefinition(b, qualified_id, "kTask",
                                                  decl_syntax)
  ELSE Descend(b, qualified_id)

\* An include expander that passes over a file it cannot open.
EnterIncludeFileUnreported(b, preprocessor_include) ==
  LET named == Len(preprocessor_include.children) >= 2
      filename_unquoted ==
        StripOuterQuotes(preprocessor_include.children[2].text)
      status_or_file == OpenIncludedFile(b.project_, filename_unquoted)
      included_file == status_or_file.file
      parsed == ParseFile(included_file)
      inner == Visit([b EXCEPT !.source_ = included_file.path,
                               !.including = Append(@, included_file.path)],
                     parsed.syntax_tree)
  IN  IF ~named THEN b
      ELSE IF ~b.project_.attached THEN b
      ELSE IF ~status_or_file.ok THEN b
      ELSE IF ~parsed.ok
      THEN [b EXCEPT !.diagnostics_ = Append(@, parsed.status)]
      ELSE IF \E i \in 1..Len(b.including) :
                b.including[i] = included_file.path
      THEN [b EXCEPT !.dead = TRUE]
      ELSE [inner EXCEPT !.source_ = b.source_, !.including = b.including]

\* Builder::EnterIncludeFile.  The traversal of a file is entered again
\* whenever a directive names it, so a file met while it is being traversed
\* (including) is entered without end: the call does not return and the
\* process dies of it.
EnterIncludeFile(b, preprocessor_include) ==
  LET named == Len(preprocessor_include.children) >= 2
      filename_text == preprocessor_include.children[2].text
      filename_unquoted == StripOuterQuotes(filename_text)
      status_or_file == OpenIncludedFile(b.project_, filename_unquoted)
      included_file == status_or_file.file
      parsed == ParseFile(included_file)
      inner == Visit([b EXCEPT !.source_ = included_file.path,
                               !.including = Append(@, included_file.path)],
                     parsed.syntax_tree)
  IN  IF ~named THEN b
      ELSE IF ~b.project_.attached THEN b      \* Without project, ignore.
      ELSE IF ~status_or_file.ok
      THEN [b EXCEPT !.diagnostics_ = Append(@, status_or_file.status)]
      ELSE IF ~parsed.ok
      THEN [b EXCEPT !.diagnostics_ = Append(@, parsed.status)]
      ELSE IF \E i \in 1..Len(b.including) :
                b.including[i] = included_file.path
      THEN [b EXCEPT !.dead = TRUE]
      ELSE [inner EXCEPT !.source_ = b.source_, !.including = b.including]

\* The history of the walk: for a construct walked to its end, its tag, the
\* tag of the node it sits in, and the current scope, the reference branch
\* point and the origin file on entry (in) and on exit (out).
Traced(before, after, node) ==
  [after EXCEPT !.trace =
     Append(@, [tag |-> node.tag,
                within |-> IF before.context = <<>> THEN ""
                           ELSE before.context[1].tag,
                scope_in |-> before.current_scope_,
                scope_out |-> after.current_scope_,
                branch_in |-> before.reference_branch_point_,
                branch_out |-> after.reference_branch_point_,
                source_in |-> before.source_,
                source_out |-> after.source_])]

\* Builder::Visit(const SyntaxTreeLeaf&) and Visit(const SyntaxTreeNode&), for
\* the constructs of the translation units below; nothing is visited once a
\* CHECK has failed.  The scoped and the reference-capturing constructs and
\* the includes leave an entry in the history of the walk.
Visit(b, symbol) ==
  CASE b.dead -> b
    [] symbol.leaf -> VisitLeaf(b, symbol)
    [] symbol.tag = "kModuleDeclaration" ->
         Traced(b, DeclareModule(b, symbol), symbol)
    [] symbol.tag = "kPackageDeclaration" ->
         Traced(b, DeclarePackage(b, symbol), symbol)
    [] symbol.tag = "kClassDeclaration" ->
         Traced(b, DeclareClass(b, symbol), symbol)
    [] symbol.tag = "kGenerateIfClause" ->
         Traced(b, DeclareGenerateIf(b, symbol), symbol)
    [] symbol.tag = "kGenerateElseClause" ->
         Traced(b, DeclareGenerateElse(b, symbol), symbol)
    [] symbol.tag \in {"kFunctionPrototype", "kFunctionDeclaration"} ->
         Traced(b, DeclareFunction(b, symbol), symbol)
    [] symbol.tag = "kFunctionHeader" -> SetupFunctionHeader(b, symbol)
    [] symbol.tag \in {"kTaskPrototype", "kTaskDeclaration"} ->
         Traced(b, DeclareTask(b, symbol), symbol)
    [] symbol.tag \in {"kPortItem", "kPortDeclaration", "kNetDeclaration",
                       "kDataDeclaration"} -> DeclareData(b, symbol)
    [] symbol.tag = "kParamDeclaration" -> DeclareParameter(b, symbol)
    [] symbol.tag \in {"kTypeInfo", "kDataType"} ->
         Traced(b, DescendDataType(b, symbol), symbol)
    [] symbol.tag = "kReferenceCallBase" ->
         Traced(b, DescendReferenceExpression(b, symbol), symbol)
    [] symbol.tag = "kActualParameterList" ->
         DescendActualParameterList(b, symbol)
    [] symbol.tag = "kPortActualList" -> DescendPortActualList(b, symbol)
    [] symbol.tag = "kNetVariable" -> DeclareNet(b, symbol)
    [] symbol.tag = "kRegisterVariable" -> DeclareRegister(b, symbol)
    [] symbol.tag = "kGateInstance" ->
         Traced(b, DeclareInstance(b, symbol), symbol)
    [] symbol.tag = "kQualifiedId" ->
         Traced(b, HandleQualifiedId(b, symbol), symbol)
    [] symbol.tag = "kPreprocessorInclude" ->
         Traced(b, EnterIncludeFile(b, symbol), symbol)
    [] OTHER -> Descend(b, symbol)

VisitChildren(b, children, i) ==
  CASE i > Len(children) -> b
    [] i = Len(children) -> Visit([b EXCEPT !.is_last = TRUE], children[i])
    [] OTHER -> VisitChildren(Visit([b EXCEPT !.is_last = FALSE], children[i]),
                              children, i + 1)

\* BuildSymbolTable(source, symbol_table, project): one builder per
\* translation unit; returns the table and the builder's diagnostics.
BuilderOutcome(b) ==
  [st |-> b.st, diagnostics |-> b.diagnostics_, dead |-> b.dead]

BuildSymbolTable(source, st, project_) ==
  BuilderOutcome(Visit(Builder(source, st, project_), source.syntax_tree))


----------------------------------------------------------------------------
\* Resolver.  The state of a resolve pass: the table, the diagnostics vector
\* and whether the process was terminated.  "at" names the component being
\* resolved.

Component(st, at) ==
  st[at.scope].local_references_to_bind[at.ref][at.node]

Bind(rs, at, symbol) ==
  [rs EXCEPT !.st[at.scope].local_references_to_bind[at.ref][at.node]
                .resolved_symbol = symbol]

Diagnose(rs, status) ==
  [rs EXCEPT !.diagnostics = Append(@, status)]

RECURSIVE LookupSymbolOutermost(_, _, _)
\* A faulty LookupSymbolUpwards: the outermost scope holding the name wins.
LookupSymbolOutermost(st, context, symbol) ==
  IF context = 0 THEN 0
  ELSE LET outer == LookupSymbolOutermost(st, st[context].parent, symbol)
       IN  IF outer # 0 THEN outer ELSE Find(st, context, symbol)

RECURSIVE LookupSymbolUpwards(_, _, _)
\* Search up-scope, stopping at the first symbol found in the nearest scope.
LookupSymbolUpwards(st, context, symbol) ==
  IF context = 0 THEN 0
  ELSE LET found == Find(st, context, symbol)
       IN  IF found # 0 THEN found
           ELSE LookupSymbolUpwards(st, st[context].parent, symbol)

\* A faulty ResolveUnqualifiedName: a symbol of the wrong metatype is
\* diagnosed and bound all the same.
ResolveUnqualifiedNameBindingAnyway(rs, at, context) ==
  LET component == Component(rs.st, at)
      resolved == LookupSymbolUpwards(rs.st, context, component.identifier)
  IN  IF resolved = 0
      THEN Diagnose(rs, DiagnoseUnqualifiedSymbolResolutionFailure(
                          component.identifier, context, at))
      ELSE IF MatchesMetatype(component, rs.st[resolved].type)
      THEN Bind(rs, at, resolved)
      ELSE Bind(Diagnose(rs, MetatypeMismatch(component, resolved, at)),
                at, resolved)

ResolveUnqualifiedName(rs, at, context) ==
  LET component == Component(rs.st, at)
      resolved == LookupSymbolUpwards(rs.st, context, component.identifier)
  IN  IF resolved = 0
      THEN Diagnose(rs, DiagnoseUnqualifiedSymbolResolutionFailure(
                          component.identifier, context, at))
      ELSE IF MatchesMetatype(component, rs.st[resolved].type)
      THEN Bind(rs, at, resolved)
      ELSE Diagnose(rs, MetatypeMismatch(component, resolved, at))

\* A faulty ResolveDirectMember: the member is also searched for in the
\* scopes that enclose the context.
ResolveDirectMemberUpwards(rs, at, context) ==
  LET component == Component(rs.st, at)
      found == LookupSymbolUpwards(rs.st, context, component.identifier)
  IN  IF found = 0
      THEN Diagnose(rs, DiagnoseMemberSymbolResolutionFailure(
                          component.identifier, context, at))
      ELSE IF MatchesMetatype(component, rs.st[found].type)
      THEN Bind(rs, at, found)
      ELSE Diagnose(rs, MetatypeMismatch(component, found, at))

ResolveDirectMember(rs, at, context) ==
  LET component == Component(rs.st, at)
      found == Find(rs.st, context, component.identifier)
  IN  IF found = 0
      THEN Diagnose(rs, DiagnoseMemberSymbolResolutionFailure(
                          component.identifier, context, at))
      ELSE IF MatchesMetatype(component, rs.st[found].type)
      THEN Bind(rs, at, found)
      ELSE Diagnose(rs, MetatypeMismatch(component, found, at))

\* What a build can do where the code reads through a null syntax_origin
\* (StringSpanOfSymbol(*type_info.syntax_origin) with no syntax origin).
InvalidAccessOutcomes == {"abort", "proceed"}

\* A faulty ResolveReferenceComponentNode: a member whose parent component
\* is unresolved is looked up in the anchoring scope instead of being left.
ResolveReferenceComponentNodeCascading(rs, at, context, ub) ==
  LET component == Component(rs.st, at)
      parent_at == [at EXCEPT !.node = component.parent]
  IN  IF component.resolved_symbol # 0 THEN rs
      ELSE CASE component.ref_type = "kUnqualified" ->
                  IF component.parent # 0
                  THEN [rs EXCEPT !.dead = TRUE]
                  ELSE ResolveUnqualifiedName(rs, at, context)
             [] component.ref_type = "kImmediate" ->
                  ResolveDirectMember(rs, at, context)
             [] component.ref_type = "kDirectMember" ->
                  LET parent_scope == Component(rs.st, parent_at).resolved_symbol
                  IN  IF parent_scope = 0
                      THEN ResolveDirectMember(rs, at, context)
                      ELSE ResolveDirectMember(rs, at, parent_scope)
             [] component.ref_type = "kMemberOfTypeOfParent" ->
                  LET parent_component == Component(rs.st, parent_at)
                      parent_scope == parent_component.resolved_symbol
                  IN  IF parent_scope = 0
                      THEN ResolveDirectMember(rs, at, context)
                      ELSE
                        LET type_info == rs.st[parent_scope].declared_type
                        IN  IF type_info.user_defined_type = NullRef
                            THEN IF ~type_info.syntax_origin /\ ub = "abort"
                                 THEN [rs EXCEPT !.dead = TRUE]
                                 ELSE Diagnose(rs, TypeHasNoMembers(
                                        parent_component.identifier,
                                        parent_scope, at))
                            ELSE
                              LET type_scope ==
                                    Component(rs.st, type_info.user_defined_type)
                                      .resolved_symbol
                              IN  IF type_scope = 0 THEN rs
                                  ELSE ResolveDirectMember(rs, at, type_scope)

\* ub: the outcome of an invalid access, should this call make one.
ResolveReferenceComponentNode(rs, at, context, ub) ==
  LET component == Component(rs.st, at)
      parent_at == [at EXCEPT !.node = component.parent]
  IN  IF component.resolved_symbol # 0 THEN rs     \* already bound
      ELSE CASE component.ref_type = "kUnqualified" ->
                  IF component.parent # 0
                  THEN [rs EXCEPT !.dead = TRUE]   \* CHECK(node.Parent() == nullptr)
                  ELSE ResolveUnqualifiedName(rs, at, context)
             [] component.ref_type = "kImmediate" ->
                  ResolveDirectMember(rs, at, context)
             [] component.ref_type = "kDirectMember" ->
                  LET parent_scope == Component(rs.st, parent_at).resolved_symbol
                  IN  IF parent_scope = 0 THEN rs
                      ELSE ResolveDirectMember(rs, at, parent_scope)
             [] component.ref_type = "kMemberOfTypeOfParent" ->
                  LET parent_component == Component(rs.st, parent_at)
                      parent_scope == parent_component.resolved_symbol
                  IN  IF parent_scope = 0 THEN rs
                      ELSE
                        LET type_info == rs.st[parent_scope].declared_type
                        IN  IF type_info.user_defined_type = NullRef
                            THEN IF ~type_info.syntax_origin /\ ub = "abort"
                                 THEN [rs EXCEPT !.dead = TRUE]
                                 ELSE Diagnose(rs, TypeHasNoMembers(
                                        parent_component.identifier,
                                        parent_scope, at))
                            ELSE
                              LET type_scope ==
                                    Component(rs.st, type_info.user_defined_type)
                                      .resolved_symbol
                              IN  IF type_scope = 0 THEN rs
                                  ELSE ResolveDirectMember(rs, at, type_scope)

RECURSIVE PreOrderFrom(_, _)
RECURSIVE PreOrderAll(_, _, _)
\* VectorTree::ApplyPreOrder: the node, then each child's subtree in order.
PreOrderFrom(tree, n) == <<n>> \o PreOrderAll(tree, RefChildren(tree, n), 1)

PreOrderAll(tree, kids, i) ==
  IF i > Len(kids) THEN <<>>
  ELSE PreOrderFrom(tree, kids[i]) \o PreOrderAll(tree, kids, i + 1)

RECURSIVE ResolveNodes(_, _, _, _, _, _, _)
ResolveNodes(rs, scope, ref, order, i, context, ub) ==
  IF i > Len(order) \/ rs.dead THEN rs
  ELSE ResolveNodes(
         ResolveReferenceComponentNode(
           rs, [scope |-> scope, ref |-> ref, node |-> order[i]], context, ub),
         scope, ref, order, i + 1, context, ub)

\* DependentReferences::Resolve on tree number ref of the scope.
DependentReferencesResolve(rs, scope, ref, context, ub) ==
  LET tree == rs.st[scope].local_references_to_bind[ref]
  IN  IF tree = <<>> THEN rs
      ELSE ResolveNodes(rs, scope, ref, PreOrderFrom(tree, 1), 1, context, ub)

RECURSIVE SymbolInfoResolveFrom(_, _, _, _)
SymbolInfoResolveFrom(rs, scope, ref, ub) ==
  IF ref > Len(rs.st[scope].local_references_to_bind) \/ rs.dead THEN rs
  ELSE SymbolInfoResolveFrom(
         DependentReferencesResolve(rs, scope, ref, scope, ub),
         scope, ref + 1, ub)

\* SymbolInfo::Resolve(context, diagnostics), context being the node itself.
SymbolInfoResolve(rs, scope, ub) == SymbolInfoResolveFrom(rs, scope, 1, ub)

\* The children of a scope in the order of its std::map (by key).
ScopeChildren(st, scope) ==
  LET kids == {i \in 1..Len(st) : st[i].parent = scope}
      RECURSIVE Ordered(_)
      Ordered(S) ==
        IF S = {} THEN <<>>
        ELSE LET least == CHOOSE i \in S :
                            \A j \in S : KeyRank(st[i].key) <= KeyRank(st[j].key)
             IN  <<least>> \o Ordered(S \ {least})
  IN  Ordered(kids)

RECURSIVE ScopePreOrderFrom(_, _)
RECURSIVE ScopePreOrderAll(_, _, _)
\* MapTree::ApplyPreOrder
ScopePreOrderFrom(st, scope) ==
  <<scope>> \o ScopePreOrderAll(st, ScopeChildren(st, scope), 1)

ScopePreOrderAll(st, kids, i) ==
  IF i > Len(kids) THEN <<>>
  ELSE ScopePreOrderFrom(st, kids[i]) \o ScopePreOrderAll(st, kids, i + 1)

RECURSIVE ResolveScopes(_, _, _, _)
ResolveScopes(rs, order, i, ub) ==
  IF i > Len(order) \/ rs.dead THEN rs
  ELSE ResolveScopes(SymbolInfoResolve(rs, order[i], ub), order, i + 1, ub)

\* SymbolTable::Resolve(diagnostics)
SymbolTableResolve(st, diags, ub) ==
  ResolveScopes([st |-> st, diagnostics |-> diags, dead |-> FALSE],
                ScopePreOrderFrom(st, 1), 1, ub)

\* A local resolve that looks every root up again, bound or not.
ResolveReferenceComponentNodeLocalRebinding(rs, at, context) ==
  Bind(rs, at, Find(rs.st, context, Component(rs.st, at).identifier))

ResolveReferenceComponentNodeLocal(rs, at, context) ==
  LET component == Component(rs.st, at)
      found == Find(rs.st, context, component.identifier)
  IN  IF component.resolved_symbol # 0 THEN rs     \* already bound
      ELSE IF component.parent # 0 \/ component.ref_type # "kUnqualified"
      THEN [rs EXCEPT !.dead = TRUE]               \* CHECK, CHECK_EQ
      ELSE IF found # 0 THEN Bind(rs, at, found)
      ELSE rs

\* DependentReferences::ResolveLocally: the root of the tree only.
DependentReferencesResolveLocally(rs, scope, ref, context) ==
  IF rs.st[scope].local_references_to_bind[ref] = <<>> THEN rs
  ELSE ResolveReferenceComponentNodeLocal(
         rs, [scope |-> scope, ref |-> ref, node |-> 1], context)

RECURSIVE SymbolInfoResolveLocallyFrom(_, _, _)
SymbolInfoResolveLocallyFrom(rs, scope, ref) ==
  IF ref > Len(rs.st[scope].local_references_to_bind) \/ rs.dead THEN rs
  ELSE SymbolInfoResolveLocallyFrom(
         DependentReferencesResolveLocally(rs, scope, ref, scope),
         scope, ref + 1)

\* SymbolInfo::ResolveLocally(context)
SymbolInfoResolveLocally(rs, scope) == SymbolInfoResolveLocallyFrom(rs, scope, 1)

RECURSIVE ResolveScopesLocally(_, _, _)
ResolveScopesLocally(rs, order, i) ==
  IF i > Len(order) \/ rs.dead THEN rs
  ELSE ResolveScopesLocally(SymbolInfoResolveLocally(rs, order[i]), order, i + 1)

\* SymbolTable::ResolveLocallyOnly()
SymbolTableResolveLocallyOnly(st) ==
  ResolveScopesLocally([st |-> st, diagnostics |-> <<>>, dead |-> FALSE],
                       ScopePreOrderFrom(st, 1), 1)


----------------------------------------------------------------------------
\* The projects of the model.

\* The bodies of module m: up to MaxBody items out of the given texts.
Bodies(texts) == UNION { [1..n -> texts] : n \in 0..MaxBody }

\* One translation unit:
\* "function f  [class C]  package p  module m; ... endmodule".
Programs ==
  { [attached |-> TRUE, head |-> r \o c \o p, body |-> body,
     files |-> NoFiles] :
      r \in { <<"function int f(); endfunction">> },
      c \in { <<>>, <<"class C; endclass">>, <<"class C; int f; endclass">> },
      p \in { <<"package p; int f; endpackage">>,
              <<"package p; C c; endpackage">> },
      body \in Bodies({ "int f;", "int c;", "C c;", "wire c;",
                        "task f; endtask", "initial f();", "initial c.f = 0;",
                        "initial m.f = 0;", "initial p::f();",
                        "initial q::f = 0;", "initial p::c.f = 0;" }) }

\* One translation unit with out-of-line definitions "C::g" and instances:
\* "[C]  [definition of C::g]  module m; ... endmodule".
DefinitionPrograms ==
  { [attached |-> TRUE, head |-> c \o d, body |-> body, files |-> NoFiles] :
      c \in { <<>>, <<"int C;">>, <<"class C; endclass">>,
              <<"class C; extern function int g(); endclass">>,
              <<"class C; extern task g(); endclass">> },
      d \in DefinitionTexts,
      body \in Bodies({ "C u();", "int x;", "initial u.x = 0;",
                        "function int C::g(); int x; endfunction" }) }

\* One translation unit "module m; ... endmodule" of a symbol table with or
\* without a project, and the include files of the project ("int a" does
\* not parse).
IncludePrograms ==
  { [attached |-> attached, head |-> <<>>, body |-> body, files |-> files] :
      attached \in BOOLEAN,
      body \in Bodies({ "include \"a.svh\"", "include \"b.svh\"", "int a;" }),
      files \in [IncludeNames -> { "", "int a", "int a;",
                                   "int b; include \"a.svh\"",
                                   "int b; include \"b.svh\"" }] }

\* One translation unit with generate blocks and scoped declarations,
\* "[C | module m | include]  module m; ... endmodule": ahead of module m
\* comes another declaration of module m or the include of the file a.svh,
\* which declares it.
GeneratePrograms ==
  { [attached |-> TRUE, head |-> t, body |-> body,
     files |-> [n \in IncludeNames |->
                  IF n = "a.svh" THEN "module m; if (1) begin end endmodule"
                  ELSE ""]] :
      t \in { <<>>, <<"class C; extern function int g(); endclass">>,
              <<"module m; if (1) begin end endmodule">>,
              <<"include \"a.svh\"">> },
      body \in Bodies({ "if (1) begin end", "if (1) begin : g end",
                        "if (1) begin end else begin end",
                        "if (1) begin end else if (1) wire x;",
                        "if (1) begin if (1) begin end end",
                        "function int f(); endfunction", "task f; endtask",
                        "function int C::g(); int x; endfunction" }) }

\* One translation unit with named parameters and named ports:
\* "[class A]  [module T]  module m; ... endmodule".  A type written as the
\* value of a named parameter is handed over by the parser as a type
\* (kDataType).
ParameterPrograms ==
  { [attached |-> TRUE, head |-> t, body |-> body, files |-> NoFiles] :
      t \in { <<>>,
              <<"module T #(parameter int P = 0) (input a, input b); endmodule">>,
              <<"class A #(parameter int B = 0); endclass",
                "module T #(parameter int P = 0) (input a, input b); endmodule">> },
      body \in Bodies({ "A#(.B(1)) x;", "A#(.B(1))::C#(.D(2)) x;",
                        "A#(.B(1))::C#(.D(E#(.F(0))))::G x;",
                        "T u(.a(x), .b(y));", "T#(.P(1)) u(.a(x));",
                        "initial f();", "initial A#(.B(1))::f();", "wire x;" }) }

\* The translation unit of the project: its path and parsed contents.
TranslationUnit(p) == [path |-> "m.sv", syntax_tree |-> Parse(p)]

----------------------------------------------------------------------------
\* The preprocessor tool of verilog/tools/preprocessor/verilog_preprocessor.cc.
\* A stream and the contents of a file are sequences of characters; the lines
\* written to std::cerr are kept whole.

\* absl::Status
OkStatus == [ok |-> TRUE, message |-> ""]
InvalidArgumentError(message) == [ok |-> FALSE, message |-> message]

\* replace_char = '\0'
NUL == "\\0"

\* verible::file::GetContents(source_file, &source_contents): "-" reads the
\* standard input, any other name the file of that name, which fails when
\* there is no such file.
GetContents(source_file, cin, files) ==
  CASE source_file = "-" -> [status |-> OkStatus, source_contents |-> cin]
    [] source_file \in DOMAIN files ->
         [status |-> OkStatus, source_contents |-> files[source_file]]
    [] OTHER ->
         [status |-> [ok |-> FALSE,
                      message |-> source_file \o ": No such file or directory"],
          source_contents |-> <<>>]

\* What a comment delimiter becomes: spaces under ' ', nothing under '\0',
\* itself under any other replacement character.
StripDelimiter(delimiter, replace_char) ==
  CASE replace_char = " " -> <<" ", " ">>
    [] replace_char = NUL -> <<>>
    [] OTHER -> delimiter

IsAt(content, i, delimiter) ==
  /\ i + 1 <= Len(content)
  /\ <<content[i], content[i + 1]>> = delimiter

\* verilog::StripVerilogComments(content, &output, replace_char), as the
\* usage text of strip-comments describes it: the text from position i on,
\* read outside a comment ("code"), in a // comment ("eol") or in a /**/
\* comment ("block").  Inside a comment newlines are kept.
RECURSIVE StripFrom(_, _, _, _)
StripFrom(content, i, within, replace_char) ==
  CASE i > Len(content) -> <<>>
    [] within = "code" /\ IsAt(content, i, <<"/", "/">>) ->
         StripDelimiter(<<"/", "/">>, replace_char)
           \o StripFrom(content, i + 2, "eol", replace_char)
    [] within = "code" /\ IsAt(content, i, <<"/", "*">>) ->
         StripDelimiter(<<"/", "*">>, replace_char)
           \o StripFrom(content, i + 2, "block", replace_char)
    [] within = "code" ->
         <<content[i]>> \o StripFrom(content, i + 1, "code", replace_char)
    [] within = "eol" /\ content[i] = "\n" ->
         <<"\n">> \o StripFrom(content, i + 1, "code", replace_char)
    [] within = "block" /\ IsAt(content, i, <<"*", "/">>) ->
         StripDelimiter(<<"*", "/">>, replace_char)
           \o StripFrom(content, i + 2, "code", replace_char)
    [] content[i] = "\n" ->
         <<"\n">> \o StripFrom(content, i + 1, within, replace_char)
    [] replace_char = NUL -> StripFrom(content, i + 1, within, replace_char)
    [] OTHER ->
         <<replace_char>> \o StripFrom(content, i + 1, within, replace_char)

StripVerilogComments(content, output, replace_char) ==
  output \o StripFrom(content, 1, "code", replace_char)

\* The outcome of a subcommand: its status and the output stream after it.
Returns(status, outs) == [status |-> status, outs |-> outs]

\* A strip-comments that checks nothing: it reads the first argument when
\* there is one and replaces with the first character of the second.
StripCommentsUnchecked(args, cin, files, outs) ==
  Returns(OkStatus,
          StripVerilogComments(
            IF args = <<>> THEN <<>> ELSE GetContents(args[1], cin, files).source_contents,
            outs,
            IF Len(args) < 2 THEN " " ELSE args[2]))

\* StripComments(args, ins, outs, errs)
StripComments(args, cin, files, outs) ==
  CASE args = <<>> ->
         Returns(InvalidArgumentError("Missing file argument.  Use '-' for stdin."),
                 outs)
    [] ~GetContents(args[1], cin, files).status.ok ->
         Returns(GetContents(args[1], cin, files).status, outs)
    [] Len(args) = 1 ->
         Returns(OkStatus,
                 StripVerilogComments(GetContents(args[1], cin, files).source_contents,
                                      outs, " "))
    [] Len(args) = 2 /\ Len(args[2]) = 0 ->
         Returns(OkStatus,
                 StripVerilogComments(GetContents(args[1], cin, files).source_contents,
                                      outs, NUL))
    [] Len(args) = 2 /\ Len(args[2]) = 1 ->
         Returns(OkStatus,
                 StripVerilogComments(GetContents(args[1], cin, files).source_contents,
                                      outs, args[2]))
    [] Len(args) = 2 ->
         Returns(InvalidArgumentError("Replacement must be a single character."),
                 outs)
    [] OTHER -> Returns(InvalidArgumentError("Too many arguments."), outs)

\* kCommands: the names of the subcommands of the tool.
kCommands == <<"strip-comments">>

\* The registration loop of main, from the i-th entry of kCommands on:
\* SubcommandRegistry::RegisterCommand registers a name once.
RECURSIVE RegisterCommands(_, _)
RegisterCommands(commands, i) ==
  CASE i > Len(kCommands) -> [status |-> OkStatus, commands |-> commands]
    [] kCommands[i] \in commands ->
         [status |-> InvalidArgumentError("A function named " \o kCommands[i]
                                            \o " has already been registered."),
          commands |-> commands]
    [] OTHER -> RegisterCommands(commands \cup {kCommands[i]}, i + 1)

\* absl::StrCat("usage: ", argv[0], " command args...", ...): the list of
\* the commands is left out of the text.
usage(program) == "usage: " \o program \o " command args...\navailable commands:\n"

\* SubcommandArgsRange(args.cbegin() + 2, args.cend())
SubcommandArgsRange(args) == SubSeq(args, 3, Len(args))

\* The process after main has returned.
Exit(p, outs, errs, exit_code) ==
  [p EXCEPT !.cout = outs, !.cerr = @ \o errs, !.exited = TRUE,
            !.exit_code = exit_code]

\* main(argc, argv): sub.main is StripComments, the entry of kCommands
\* registered under args[1].
main(p) ==
  CASE ~RegisterCommands({}, 1).status.ok ->
         Exit(p, p.cout, <<RegisterCommands({}, 1).status.message>>, 2)
    [] Len(p.argv) = 1 -> Exit(p, p.cout, <<usage(p.argv[1])>>, 1)
    [] ~StripComments(SubcommandArgsRange(p.argv), p.cin, p.files,
                      p.cout).status.ok ->
         Exit(p, p.cout,
              <<StripComments(SubcommandArgsRange(p.argv), p.cin, p.files,
                              p.cout).status.message>>, 1)
    [] OTHER ->
         Exit(p, StripComments(SubcommandArgsRange(p.argv), p.cin, p.files,
                               p.cout).outs, <<>>, 0)

\* No tool process: the symbol table is used as a library.
NoProcess ==
  [argv |-> <<>>, cin |-> <<>>, files |-> <<>>, cout |-> <<>>, cerr |-> <<>>,
   exited |-> FALSE, exit_code |-> 0]

\* The command lines given to the tool: the program, the subcommand, the
\* file, the replacement and one argument more.
CommandLines ==
  { <<"verilog_preprocessor">>, <<"verilog_preprocessor", "strip-comments">> }
    \cup { <<"verilog_preprocessor", "strip-comments", f>> :
             f \in {"a.v", "none.v", "-"} }
    \cup { <<"verilog_preprocessor", "strip-comments", f, r>> :
             f \in {"a.v", "none.v", "-"}, r \in {"", " ", "x", "xy"} }
    \cup { <<"verilog_preprocessor", "strip-comments", f, r, "y">> :
             f \in {"a.v", "none.v", "-"}, r \in {"", " ", "x", "xy"} }

\* A process of the tool before main: the file system holds a.v alone.
Processes ==
  { [argv |-> argv, cin |-> cin, files |-> [f \in {"a.v"} |-> contents],
     cout |-> <<>>, cerr |-> <<>>, exited |-> FALSE, exit_code |-> 0] :
      argv \in CommandLines,
      cin \in { <<>>, <<"/", "/", "c">> },
      contents \in { <<>>,
                     <<"a", ";">>,
                     <<"a", "/", "/", "c", "\n", "b">>,
                     <<"/", "*", "c", "\n", "*", "/", "a">>,
                     <<"a", "/", "b", "/", "*", "/", "/", "*", "/">> } }

----------------------------------------------------------------------------
\* The public operations of SymbolTable.  The table is built once, from the
\* one translation unit of the project, and then resolved.

Init ==
  /\ project \in Programs
  /\ symbol_table = EmptySymbolTable
  /\ diagnostics = <<>>
  /\ calls = <<>>
  /\ crashed = FALSE
  /\ process = NoProcess

\* SymbolTable::Build(diagnostics): ParseFileAndBuildSymbolTable on the
\* translation unit.  A symbol table without project has no units to run
\* through: it is built by BuildSymbolTable on the unit itself, to the same
\* effect.
Build ==
  /\ calls = <<>>
  /\ ~crashed
  /\ \E built \in {BuildSymbolTable(TranslationUnit(project), symbol_table,
                                     project)} :
       /\ symbol_table' = built.st
       /\ diagnostics' = diagnostics \o built.diagnostics
       /\ crashed' = built.dead
  /\ calls' = <<"Build">>
  /\ UNCHANGED <<project, process>>

\* SymbolTable::Resolve(diagnostics)
Resolve ==
  /\ calls # <<>>
  /\ Len(calls) <= MaxCalls
  /\ ~crashed
  /\ \E ub \in InvalidAccessOutcomes :
       \E rs \in {SymbolTableResolve(symbol_table, diagnostics, ub)} :
         /\ symbol_table' = rs.st
         /\ diagnostics' = rs.diagnostics
         /\ crashed' = rs.dead
  /\ calls' = Append(calls, "Resolve")
  /\ UNCHANGED <<project, process>>

\* SymbolTable::ResolveLocallyOnly()
ResolveLocallyOnly ==
  /\ calls # <<>>
  /\ Len(calls) <= MaxCalls
  /\ ~crashed
  /\ \E rs \in {SymbolTableResolveLocallyOnly(symbol_table)} :
       /\ symbol_table' = rs.st
       /\ crashed' = rs.dead
  /\ calls' = Append(calls, "ResolveLocallyOnly")
  /\ UNCHANGED <<project, diagnostics, process>>

Next == Build \/ Resolve \/ ResolveLocallyOnly

Spec == Init /\ [][Next]_vars

\* The same operations on the translation units with out-of-line definitions.
InitDefinitions ==
  /\ project \in DefinitionPrograms
  /\ symbol_table = EmptySymbolTable
  /\ diagnostics = <<>>
  /\ calls = <<>>
  /\ crashed = FALSE
  /\ process = NoProcess

SpecDefinitions == InitDefinitions /\ [][Next]_vars

\* The same operations on the translation units with generate blocks.
InitGenerate ==
  /\ project \in GeneratePrograms
  /\ symbol_table = EmptySymbolTable
  /\ diagnostics = <<>>
  /\ calls = <<>>
  /\ crashed = FALSE
  /\ process = NoProcess

SpecGenerate == InitGenerate /\ [][Next]_vars

\* The same operations on the translation units with include directives.
InitIncludes ==
  /\ project \in IncludePrograms
  /\ symbol_table = EmptySymbolTable
  /\ diagnostics = <<>>
  /\ calls = <<>>
  /\ crashed = FALSE
  /\ process = NoProcess

SpecIncludes == InitIncludes /\ [][Next]_vars

\* The same operations on the translation units with named parameters and
\* named ports.
InitParameters ==
  /\ project \in ParameterPrograms
  /\ symbol_table = EmptySymbolTable
  /\ diagnostics = <<>>
  /\ calls = <<>>
  /\ crashed = FALSE
  /\ process = NoProcess

SpecParameters == InitParameters /\ [][Next]_vars

\* The preprocessor tool: one run of main on a command line, with no symbol
\* table in the process.
InitTool ==
  /\ project = [attached |-> FALSE, head |-> <<>>, body |-> <<>>, files |-> NoFiles]
  /\ symbol_table = EmptySymbolTable
  /\ diagnostics = <<>>
  /\ calls = <<>>
  /\ crashed = FALSE
  /\ process \in Processes

Main ==
  /\ process.argv # <<>>
  /\ ~process.exited
  /\ process' = main(process)
  /\ UNCHANGED <<project, symbol_table, diagnostics, calls, crashed>>

SpecTool == InitTool /\ [][Main]_vars

----------------------------------------------------------------------------
\* Vocabulary of the properties below.

\* Every reference component recorded in the table.
References(st) ==
  UNION { UNION { { [scope |-> s, ref |-> r, node |-> n] :
                      n \in 1..Len(st[s].local_references_to_bind[r]) } :
                  r \in 1..Len(st[s].local_references_to_bind) } :
          s \in 1..Len(st) }

ParentOf(st, at) == [at EXCEPT !.node = Component(st, at).parent]

RECURSIVE AncestorsOf(_, _)
\* The components above a component in its reference tree.
AncestorsOf(st, at) ==
  IF Component(st, at).parent = 0 THEN {}
  ELSE {ParentOf(st, at)} \cup AncestorsOf(st, ParentOf(st, at))

\* The components of the reference tree of a component.
TreeOf(st, at) ==
  { x \in References(st) : x.scope = at.scope /\ x.ref = at.ref }

\* The diagnostics of the resolver that concern a component.
DiagnosticsAt(diags, at) == { i \in 1..Len(diags) : diags[i].at = at }

RECURSIVE ScopeChain(_, _)
\* A scope and the scopes that enclose it.
ScopeChain(st, scope) ==
  IF scope = 0 THEN {} ELSE {scope} \cup ScopeChain(st, st[scope].parent)

\* The children of a scope that carry a name (none or one).
Members(st, scope, id) ==
  { i \in 1..Len(st) : st[i].parent = scope /\ st[i].key = id }

\* The scopes of the chain of a scope that have a child of that name.
Holders(st, scope, id) ==
  { s \in ScopeChain(st, scope) : Members(st, s, id) # {} }

\* The innermost of them.
Nearest(st, scope, id) ==
  CHOOSE s \in Holders(st, scope, id) :
    \A t \in Holders(st, scope, id) :
      Cardinality(ScopeChain(st, t)) <= Cardinality(ScopeChain(st, s))

\* A symbol of metatype found is what a component expecting "expected" wants.
Satisfies(expected, found) ==
  \/ expected = "kUnspecified"
  \/ expected = found
  \/ expected = "kCallable" /\ found \in {"kFunction", "kTask"}

\* One Resolve call has run, to its end, on the freshly built table.
ResolvedOnce == calls = <<"Build", "Resolve">> /\ ~crashed

\* The step of the second of two Resolve calls in succession, run to its end.
SecondResolve ==
  /\ calls = <<"Build", "Resolve">>
  /\ calls' = <<"Build", "Resolve", "Resolve">>
  /\ ~crashed'

\* The diagnostics a resolver run has added to those of the build.
OfResolver(diags) == SelectSeq(diags, LAMBDA d : d.at # NullRef)

\* The table once built, before any resolve call.
Built == BuildSymbolTable(TranslationUnit(project), EmptySymbolTable,
                          project).st

----------------------------------------------------------------------------
\* C1.  Resolve is idempotent on bindings: in a second Resolve run in
\* succession every component keeps the resolved_symbol the first run left.
ResolveIsIdempotent ==
  [][SecondResolve =>
       \A at \in References(symbol_table) :
         Component(symbol_table', at).resolved_symbol =
           Component(symbol_table, at).resolved_symbol]_vars

\* C2 as stated.  A second Resolve run appends no diagnostic.
SecondResolveAppendsNothing ==
  [][SecondResolve => diagnostics' = diagnostics]_vars

\* C2, amended.  A second Resolve run keeps the diagnostics there are,
\* appends diagnostics only for components that were unresolved before it,
\* and appends again every diagnostic the first run made.
SecondResolveRepeatsDiagnostics ==
  [][SecondResolve =>
       LET appended == SubSeq(diagnostics', Len(diagnostics) + 1,
                              Len(diagnostics'))
           first == OfResolver(diagnostics)
       IN  /\ Len(diagnostics') >= Len(diagnostics)
           /\ SubSeq(diagnostics', 1, Len(diagnostics)) = diagnostics
           /\ \A i \in 1..Len(appended) :
                /\ appended[i].at \in References(symbol_table)
                /\ Component(symbol_table, appended[i].at).resolved_symbol = 0
           /\ \A i \in 1..Len(first) :
                \E j \in 1..Len(appended) : appended[j] = first[i]]_vars

\* Two Resolve runs have ended; the first bound a component and diagnosed
\* another, and the second made that diagnostic again.
SecondResolveRepeatsDiagnosticsWitness ==
  /\ calls = <<"Build", "Resolve", "Resolve">>
  /\ ~crashed
  /\ \E at \in References(symbol_table) :
       /\ Component(symbol_table, at).resolved_symbol # 0
       /\ DiagnosticsAt(diagnostics, at) = {}
  /\ \E at \in References(symbol_table) :
       /\ Component(symbol_table, at).resolved_symbol = 0
       /\ Cardinality(DiagnosticsAt(diagnostics, at)) = 2

\* C3.  ResolveLocallyOnly followed by Resolve leaves every component with
\* the resolved_symbol that Resolve alone gives it on the same built table.
LocalThenFullEqualsFull ==
  (calls = <<"Build", "ResolveLocallyOnly", "Resolve">> /\ ~crashed) =>
    LET alone == SymbolTableResolve(Built, <<>>, "proceed")
    IN  \A at \in References(symbol_table) :
          Component(symbol_table, at).resolved_symbol =
            Component(alone.st, at).resolved_symbol

\* C4.  After one Resolve run every unresolved component has a diagnostic
\* of that run for itself or for an ancestor of its reference tree.
UnresolvedIsExplained ==
  ResolvedOnce =>
    \A at \in References(symbol_table) :
      Component(symbol_table, at).resolved_symbol = 0 =>
        \E x \in {at} \cup AncestorsOf(symbol_table, at) :
          DiagnosticsAt(diagnostics, x) # {}

\* C5.  An unqualified root component anchored in scope S is decided by the
\* innermost scope of S's chain that has a child of its name: it is bound to
\* that child (if the child's metatype suits it) and to nothing else; when
\* no scope of the chain has the name it stays unresolved with exactly one
\* diagnostic, "Unable to resolve symbol".
UnqualifiedLookupIsUpwardChain ==
  ResolvedOnce =>
    \A at \in References(symbol_table) :
      LET component == Component(symbol_table, at)
          id == component.identifier
          mine == DiagnosticsAt(diagnostics, at)
      IN  (component.ref_type = "kUnqualified" /\ component.parent = 0) =>
            IF Holders(symbol_table, at.scope, id) = {}
            THEN /\ component.resolved_symbol = 0
                 /\ Cardinality(mine) = 1
                 /\ \A i \in mine :
                      /\ diagnostics[i].text = "Unable to resolve symbol"
                      /\ diagnostics[i].name = id
            ELSE LET found ==
                       CHOOSE k \in Members(symbol_table,
                                Nearest(symbol_table, at.scope, id), id) : TRUE
                 IN  /\ component.resolved_symbol \in {0, found}
                     /\ Satisfies(component.metatype, symbol_table[found].type)
                          => component.resolved_symbol = found
                     /\ \A i \in mine :
                          diagnostics[i].text # "Unable to resolve symbol"

\* One Resolve run bound a root to a symbol of an enclosing scope, and left
\* another root unresolved, with its one diagnostic, whose name only a scope
\* off its chain declares.
UnqualifiedLookupIsUpwardChainWitness ==
  /\ ResolvedOnce
  /\ \E at \in References(symbol_table) :
       LET component == Component(symbol_table, at)
       IN  /\ component.ref_type = "kUnqualified"
           /\ component.resolved_symbol # 0
           /\ symbol_table[component.resolved_symbol].parent # at.scope
  /\ \E at \in References(symbol_table) :
       LET component == Component(symbol_table, at)
       IN  /\ component.ref_type = "kUnqualified"
           /\ component.resolved_symbol = 0
           /\ Cardinality(DiagnosticsAt(diagnostics, at)) = 1
           /\ Holders(symbol_table, at.scope, component.identifier) = {}
           /\ \E s \in 1..Len(symbol_table) :
                Members(symbol_table, s, component.identifier) # {}

\* C6 as stated.  A direct-member component whose parent is resolved to P
\* binds to P's child of its name whenever P has one.
DirectMemberBindsToChild ==
  ResolvedOnce =>
    \A at \in References(symbol_table) :
      LET component == Component(symbol_table, at)
          P == Component(symbol_table, ParentOf(symbol_table, at)).resolved_symbol
      IN  (component.ref_type = "kDirectMember" /\ P # 0) =>
            \A k \in Members(symbol_table, P, component.identifier) :
              component.resolved_symbol = k

\* C6, amended.  A direct-member component whose parent is resolved to P is
\* looked up among P's children only: it binds to P's child of its name if
\* that child's metatype suits it and stays unresolved otherwise; when P has
\* no such child it stays unresolved with exactly one diagnostic,
\* "No member symbol".
DirectMemberLookupIsLocal ==
  ResolvedOnce =>
    \A at \in References(symbol_table) :
      LET component == Component(symbol_table, at)
          id == component.identifier
          P == Component(symbol_table, ParentOf(symbol_table, at)).resolved_symbol
          mine == DiagnosticsAt(diagnostics, at)
      IN  (component.ref_type = "kDirectMember" /\ P # 0) =>
            IF Members(symbol_table, P, id) = {}
            THEN /\ component.resolved_symbol = 0
                 /\ Cardinality(mine) = 1
                 /\ \A i \in mine :
                      /\ diagnostics[i].text = "No member symbol"
                      /\ diagnostics[i].name = id
                      /\ diagnostics[i].context = P
            ELSE \A k \in Members(symbol_table, P, id) :
                   IF Satisfies(component.metatype, symbol_table[k].type)
                   THEN component.resolved_symbol = k /\ mine = {}
                   ELSE component.resolved_symbol = 0

\* One Resolve run bound a direct member to a child of its parent's scope,
\* and left another unresolved, with its one diagnostic, whose name the
\* scope enclosing its parent's scope declares.
DirectMemberLookupIsLocalWitness ==
  /\ ResolvedOnce
  /\ \E at \in References(symbol_table) :
       LET component == Component(symbol_table, at)
       IN  /\ component.ref_type = "kDirectMember"
           /\ component.resolved_symbol # 0
  /\ \E at \in References(symbol_table) :
       LET component == Component(symbol_table, at)
           P == Component(symbol_table, ParentOf(symbol_table, at)).resolved_symbol
       IN  /\ component.ref_type = "kDirectMember"
           /\ P # 0
           /\ component.resolved_symbol = 0
           /\ Cardinality(DiagnosticsAt(diagnostics, at)) = 1
           /\ Members(symbol_table, symbol_table[P].parent,
                      component.identifier) # {}

\* C7.  After one Resolve run a member-of-type-of-parent component whose
\* parent is resolved to a symbol declared with a user-defined type T, T
\* naming (from the scope of the declaration) a scope that has a child of the
\* component's name, is bound to that child.
MemberOfTypeBindsToChildOfType ==
  ResolvedOnce =>
    \A at \in References(symbol_table) :
      LET component == Component(symbol_table, at)
          parent == Component(symbol_table, ParentOf(symbol_table, at)).resolved_symbol
      IN  (component.ref_type = "kMemberOfTypeOfParent" /\ parent # 0) =>
            LET type == symbol_table[parent].declared_type.user_defined_type
            IN  type # NullRef =>
                  LET T == Component(symbol_table, type).identifier
                  IN  Holders(symbol_table, type.scope, T) # {} =>
                        \A t \in Members(symbol_table,
                                   Nearest(symbol_table, type.scope, T), T) :
                          \A f \in Members(symbol_table, t,
                                           component.identifier) :
                            Satisfies(component.metatype, symbol_table[f].type)
                              => component.resolved_symbol = f

\* C8.  After one Resolve run a direct-member or member-of-type-of-parent
\* component whose parent component is unresolved is unresolved and has no
\* diagnostic; a tree whose root is unresolved has exactly one diagnostic,
\* and it is the root's.
UnresolvedParentSilencesChild ==
  ResolvedOnce =>
    \A at \in References(symbol_table) :
      LET component == Component(symbol_table, at)
      IN  /\ ( /\ component.ref_type \in {"kDirectMember",
                                          "kMemberOfTypeOfParent"}
               /\ Component(symbol_table, ParentOf(symbol_table, at))
                    .resolved_symbol = 0 )
             => /\ component.resolved_symbol = 0
                /\ DiagnosticsAt(diagnostics, at) = {}
          /\ (component.parent = 0 /\ component.resolved_symbol = 0)
             => /\ Cardinality(DiagnosticsAt(diagnostics, at)) = 1
                /\ \A x \in TreeOf(symbol_table, at) \ {at} :
                     /\ Component(symbol_table, x).resolved_symbol = 0
                     /\ DiagnosticsAt(diagnostics, x) = {}

\* One Resolve run left a root unresolved, with a child below it, and left
\* unresolved a member of a resolved root, with a child below that member.
UnresolvedParentSilencesChildWitness ==
  /\ ResolvedOnce
  /\ \E at \in References(symbol_table) :
       /\ Component(symbol_table, at).parent = 0
       /\ Component(symbol_table, at).resolved_symbol = 0
       /\ TreeOf(symbol_table, at) # {at}
  /\ \E at \in References(symbol_table) :
       LET component == Component(symbol_table, at)
           above == ParentOf(symbol_table, at)
       IN  /\ component.ref_type = "kMemberOfTypeOfParent"
           /\ Component(symbol_table, above).parent # 0
           /\ Component(symbol_table, above).resolved_symbol = 0
           /\ Component(symbol_table, ParentOf(symbol_table, above))
                .resolved_symbol # 0

\* C9.  A Resolve run that comes to a member-of-type-of-parent component
\* whose resolved parent symbol has no user-defined type runs to its end,
\* leaves the component unresolved and makes exactly one diagnostic for it,
\* "does not have any members".
NoUserDefinedTypeIsDiagnosed ==
  calls = <<"Build", "Resolve">> =>
    \A at \in References(symbol_table) :
      LET component == Component(symbol_table, at)
          parent == Component(symbol_table, ParentOf(symbol_table, at)).resolved_symbol
          mine == DiagnosticsAt(diagnostics, at)
      IN  ( /\ component.ref_type = "kMemberOfTypeOfParent"
            /\ parent # 0
            /\ symbol_table[parent].declared_type.user_defined_type = NullRef )
          => /\ ~crashed
             /\ component.resolved_symbol = 0
             /\ Cardinality(mine) = 1
             /\ \A i \in mine : diagnostics[i].text = "does not have any members"

\* The symbol a Resolve run finds for a component: the child of the nearest
\* holder for a root, the child of the parent's scope for a direct member.
FoundFor(st, at) ==
  LET component == Component(st, at)
      id == component.identifier
  IN  IF component.parent = 0
      THEN IF Holders(st, at.scope, id) = {} THEN {}
           ELSE Members(st, Nearest(st, at.scope, id), id)
      ELSE IF component.ref_type = "kDirectMember"
      THEN LET P == Component(st, ParentOf(st, at)).resolved_symbol
           IN  IF P = 0 THEN {} ELSE Members(st, P, id)
      ELSE {}

\* C10.  After one Resolve run a component for which a symbol of a metatype
\* other than the expected one was found is unbound and has one diagnostic,
\* the metatype mismatch; a bound component expecting a metatype is bound to
\* a symbol of that metatype, or expects a callable and is bound to a
\* function or a task.
MetatypeMismatchLeavesUnbound ==
  ResolvedOnce =>
    \A at \in References(symbol_table) :
      LET component == Component(symbol_table, at)
          bound == component.resolved_symbol
          mine == DiagnosticsAt(diagnostics, at)
      IN  /\ \A k \in FoundFor(symbol_table, at) :
               ~Satisfies(component.metatype, symbol_table[k].type) =>
                 /\ bound = 0
                 /\ Cardinality(mine) = 1
                 /\ \A i \in mine :
                      /\ diagnostics[i].code = "kInvalidArgument"
                      /\ diagnostics[i].text = "Expecting reference to resolve to a"
                      /\ diagnostics[i].context = k
          /\ (bound # 0 /\ component.metatype # "kUnspecified") =>
               \/ symbol_table[bound].type = component.metatype
               \/ /\ component.metatype = "kCallable"
                  /\ symbol_table[bound].type \in {"kFunction", "kTask"}

\* One Resolve run bound a component expecting a callable to a function or
\* a task, and left another unbound for a symbol that is no callable.
MetatypeMismatchLeavesUnboundWitness ==
  /\ ResolvedOnce
  /\ \E at \in References(symbol_table) :
       LET component == Component(symbol_table, at)
       IN  /\ component.metatype = "kCallable"
           /\ component.resolved_symbol # 0
           /\ symbol_table[component.resolved_symbol].type \in
                {"kFunction", "kTask"}
  /\ \E at \in References(symbol_table) :
       /\ Component(symbol_table, at).metatype = "kCallable"
       /\ Component(symbol_table, at).resolved_symbol = 0
       /\ \E k \in FoundFor(symbol_table, at) :
            symbol_table[k].type = "kDataNetVariableInstance"
       /\ \E i \in DiagnosticsAt(diagnostics, at) :
            diagnostics[i].text = "Expecting reference to resolve to a"

----------------------------------------------------------------------------
\* Declarations.

\* The name an item of the body of module m declares in m ("" for none).
DeclaredName(text) ==
  CASE text \in {"int f;", "task f; endtask"} -> "f"
    [] text \in {"int c;", "C c;", "wire c;"} -> "c"
    [] text \in {"int x;"} -> "x"
    [] text \in {"C u();", "q u();"} -> "u"
    [] OTHER -> ""

\* The items of the body of module m that declare that name.
DeclaringItems(name) ==
  { i \in 1..Len(project.body) : DeclaredName(project.body[i]) = name }

\* The table built from the translation unit cut after item k of module m.
BuiltUpTo(k) ==
  BuildSymbolTable(TranslationUnit([project EXCEPT !.body = SubSeq(@, 1, k)]),
                   EmptySymbolTable, project).st

\* What a symbol table node records of its declaration.
Declaration(st, node) ==
  [type |-> st[node].type, file_origin |-> st[node].file_origin,
   syntax_origin |-> st[node].syntax_origin,
   declared_type |-> st[node].declared_type]

AlreadyExistsDiagnostics(diags, name, scope) ==
  { k \in 1..Len(diags) : /\ diags[k].code = "kAlreadyExists"
                          /\ diags[k].name = name
                          /\ diags[k].context = scope }

\* C11. After a build no two children of a scope share a key, and for every
\* name declared in module m: m has one child of that name, whose record
\* (metatype, file origin, syntax origin, declared type) is the one its first
\* declaration made, and every later declaration of the name is answered by
\* exactly one "already exists" diagnostic.
DuplicateDeclarationKeepsResident ==
  calls = <<"Build">> =>
    /\ \A i, j \in 1..Len(symbol_table) :
         (/\ symbol_table[i].parent = symbol_table[j].parent
          /\ symbol_table[i].key = symbol_table[j].key) => i = j
    /\ \A name \in {"c", "f", "u", "x"} :
         DeclaringItems(name) # {} =>
           LET first == CHOOSE i \in DeclaringItems(name) :
                          \A j \in DeclaringItems(name) : i <= j
               before == BuiltUpTo(first)
               m == Find(symbol_table, 1, "m")
           IN  /\ Cardinality(Members(symbol_table, m, name)) = 1
               /\ Find(before, 1, "m") = m
               /\ Declaration(symbol_table, Find(symbol_table, m, name))
                    = Declaration(before, Find(before, m, name))
               /\ Cardinality(AlreadyExistsDiagnostics(diagnostics, name, m))
                    = Cardinality(DeclaringItems(name)) - 1

\* A module that declares c as a variable of class C and then as an int has
\* been built.
DuplicateDeclarationKeepsResidentWitness ==
  /\ calls = <<"Build">>
  /\ project.body = <<"C c;", "int c;">>
  /\ Cardinality(AlreadyExistsDiagnostics(diagnostics, "c",
                                          Find(symbol_table, 1, "m"))) = 1
  /\ symbol_table[Find(symbol_table, Find(symbol_table, 1, "m"), "c")]
       .declared_type.user_defined_type # NullRef

----------------------------------------------------------------------------
\* Captured references.

\* The symbols whose declared type names a user-defined type.
UserTyped(st) ==
  { n \in 1..Len(st) : st[n].declared_type.user_defined_type # NullRef }

\* C19. After a build, the user_defined_type pointer of every symbol that has
\* one names a node of a reference tree that is in the reference list of the
\* symbol's parent scope.
UserDefinedTypeIsInParentScope ==
  calls # <<>> =>
    \A n \in UserTyped(symbol_table) :
      LET udt == symbol_table[n].declared_type.user_defined_type
      IN  /\ udt.scope = symbol_table[n].parent
          /\ udt.ref \in
               1..Len(symbol_table[udt.scope].local_references_to_bind)
          /\ udt.node \in
               1..Len(symbol_table[udt.scope].local_references_to_bind[udt.ref])

\* Module m has been built with a variable c of type C, declared after a
\* reference of m, whose type pointer names the component C.
UserDefinedTypeIsInParentScopeWitness ==
  /\ calls = <<"Build">>
  /\ project.body = <<"initial f();", "C c;">>
  /\ \E n \in UserTyped(symbol_table) :
       /\ symbol_table[n].key = "c"
       /\ symbol_table[symbol_table[n].parent].key = "m"
       /\ symbol_table[n].declared_type.user_defined_type.ref = 2
       /\ Component(symbol_table,
                    symbol_table[n].declared_type.user_defined_type)
            .identifier = "C"

\* C20. No reference list of any scope holds an empty tree.
NoEmptyReferenceTree ==
  \A s \in 1..Len(symbol_table) :
    \A r \in 1..Len(symbol_table[s].local_references_to_bind) :
      symbol_table[s].local_references_to_bind[r] # <<>>

\* Module m has been built from a declaration of primitive type, whose
\* capture stayed empty, and a reference: its list holds the reference alone.
NoEmptyReferenceTreeWitness ==
  /\ calls = <<"Build">>
  /\ project.body = <<"int c;", "initial f();">>
  /\ Len(symbol_table[Find(symbol_table, 1, "m")].local_references_to_bind)
       = 1

----------------------------------------------------------------------------
\* Bindings over time.

\* A step of SymbolTable::ResolveLocallyOnly.
LocalResolveStep == calls' = Append(calls, "ResolveLocallyOnly")

\* The component without its binding.
Unbound(component) == [component EXCEPT !.resolved_symbol = 0]

\* C12. A resolved_symbol that is set, by the builder (instance
\* self-references, out-of-line definitions) or by a resolve pass, is never
\* changed or cleared by a later Resolve or ResolveLocallyOnly.
ResolvedSymbolIsKept ==
  [][\A at \in References(symbol_table) :
       Component(symbol_table, at).resolved_symbol # 0 =>
         /\ at \in References(symbol_table')
         /\ Component(symbol_table', at).resolved_symbol =
              Component(symbol_table, at).resolved_symbol]_vars

\* Resolve and ResolveLocallyOnly have both run on a table that holds an
\* instance self-reference and the name of an out-of-line definition, bound
\* by the builder, and a type reference bound by Resolve.
ResolvedSymbolIsKeptWitness ==
  /\ calls = <<"Build", "Resolve", "ResolveLocallyOnly">>
  /\ ~crashed
  /\ \E at \in References(symbol_table) :
       /\ Component(symbol_table, at).identifier = "u"
       /\ Component(symbol_table, at).resolved_symbol # 0
       /\ Component(Built, at).resolved_symbol # 0
  /\ \E at \in References(symbol_table) :
       /\ Component(symbol_table, at).identifier = "g"
       /\ Component(symbol_table, at).resolved_symbol # 0
       /\ Component(Built, at).resolved_symbol # 0
  /\ \E at \in References(symbol_table) :
       /\ Component(symbol_table, at).identifier = "C"
       /\ at.scope # 1
       /\ Component(symbol_table, at).resolved_symbol # 0
       /\ Component(Built, at).resolved_symbol = 0

\* C13. A ResolveLocallyOnly call runs to its end, records no diagnostic,
\* leaves the scope tree and every non-root component as they were, and
\* gives every unresolved root the child of its name in the scope where its
\* tree is anchored (none: it stays unresolved).
LocalResolveTouchesRootsOnly ==
  [][LocalResolveStep =>
       /\ ~crashed'
       /\ diagnostics' = diagnostics
       /\ Len(symbol_table') = Len(symbol_table)
       /\ \A n \in 1..Len(symbol_table) :
            /\ [symbol_table'[n] EXCEPT !.local_references_to_bind = <<>>]
                 = [symbol_table[n] EXCEPT !.local_references_to_bind = <<>>]
            /\ Len(symbol_table'[n].local_references_to_bind)
                 = Len(symbol_table[n].local_references_to_bind)
       /\ References(symbol_table') = References(symbol_table)
       /\ \A at \in References(symbol_table) :
            LET before == Component(symbol_table, at)
                after == Component(symbol_table', at)
            IN  /\ Unbound(after) = Unbound(before)
                /\ (before.parent # 0 \/ before.resolved_symbol # 0)
                     => after = before
                /\ (before.parent = 0 /\ before.resolved_symbol = 0)
                     => after.resolved_symbol =
                          Find(symbol_table, at.scope, before.identifier)]_vars

----------------------------------------------------------------------------
\* Out-of-line definitions.

\* The metatype of the definition a text holds.
DefinedAs(text) ==
  IF text = "task C::g(); int x; endtask" THEN "kTask" ELSE "kFunction"

\* The diagnostics that name an identifier.
DiagnosticsNaming(diags, name) ==
  { k \in 1..Len(diags) : diags[k].name = name }

\* The components of that identifier below the root of a tree anchored in
\* the root scope: the inner names of the definitions written there.
InnerNames(st, id) ==
  { at \in References(st) : /\ at.scope = 1
                            /\ Component(st, at).parent # 0
                            /\ Component(st, at).identifier = id }

\* The table built from the first text of the head alone.
BuiltOuter ==
  BuildSymbolTable(TranslationUnit([project EXCEPT !.head = <<@[1]>>,
                                                   !.body = <<>>]),
                   EmptySymbolTable, project).st

\* C14. The definition of C::g at the root, C a class of the root without a
\* member g: C has one member g, of the definition's metatype; one
\* diagnostic names g, "No member symbol" g in C, and the build goes on to
\* module m; the inner component g is resolved to C::g; the variable x of
\* the body is declared in C::g and nowhere else.
MissingMemberIsInjected ==
  (/\ calls = <<"Build">>
   /\ Len(project.head) = 2
   /\ project.head[1] = "class C; endclass") =>
    LET C == Find(symbol_table, 1, "C")
        g == Find(symbol_table, C, "g")
    IN  /\ ~crashed
        /\ Cardinality(Members(symbol_table, C, "g")) = 1
        /\ symbol_table[g].type = DefinedAs(project.head[2])
        /\ \E k \in 1..Len(diagnostics) :
             /\ DiagnosticsNaming(diagnostics, "g") = {k}
             /\ diagnostics[k] =
                  DiagnoseMemberSymbolResolutionFailure("g", C, NullRef)
        /\ Find(symbol_table, 1, "m") # 0
        /\ InnerNames(symbol_table, "g") # {}
        /\ \A at \in InnerNames(symbol_table, "g") :
             Component(symbol_table, at).resolved_symbol = g
        /\ {n \in 1..Len(symbol_table) : symbol_table[n].key = "x"
                                         /\ symbol_table[n].parent # g}
             = {n \in 1..Len(BuiltOuter) : BuiltOuter[n].key = "x"}
               \cup {n \in 1..Len(symbol_table) :
                       /\ symbol_table[n].key = "x"
                       /\ symbol_table[n].parent = Find(symbol_table, 1, "m")}
        /\ Find(symbol_table, g, "x") # 0

\* The task C::g has been defined out of line for a class C without members.
MissingMemberIsInjectedWitness ==
  /\ calls = <<"Build">>
  /\ project.head = <<"class C; endclass", "task C::g(); int x; endtask">>
  /\ LET g == Find(symbol_table, Find(symbol_table, 1, "C"), "g")
     IN  /\ g # 0
         /\ symbol_table[g].type = "kTask"
         /\ Find(symbol_table, g, "x") # 0
         /\ Len(diagnostics) = 1

\* C15. The definition of C::g at the root where the root has no C, or a C
\* that is not a class: one diagnostic names C, no scope has a symbol g or
\* a symbol x, and module m, which follows the definition, is declared.
FailedDefinitionIsSkipped ==
  (/\ calls = <<"Build">>
   /\ \E d \in DefinitionTexts \ {<<>>} :
        project.head \in {d, <<"int C;">> \o d}
   /\ \A i \in 1..Len(project.body) :
        project.body[i] \in {"C u();", "initial u.x = 0;"}) =>
    /\ ~crashed
    /\ Cardinality(DiagnosticsNaming(diagnostics, "C")) = 1
    /\ \A n \in 1..Len(symbol_table) : symbol_table[n].key \notin {"g", "x"}
    /\ Find(symbol_table, 1, "m") # 0

\* C16. The definition of C::g at the root, C a class of the root with a
\* prototype of g.  Metatypes differ: one diagnostic names g, the
\* redefinition conflict; the record of C::g is the prototype's; x is not
\* declared in C::g.  Metatypes agree: no diagnostic names g; C has the one
\* member g, with the prototype's record; the inner component g is resolved
\* to it and x is declared in it.
PrototypeDecidesDefinition ==
  (/\ calls = <<"Build">>
   /\ Len(project.head) = 2
   /\ project.head[1] \in {"class C; extern function int g(); endclass",
                           "class C; extern task g(); endclass"}) =>
    LET C == Find(symbol_table, 1, "C")
        g == Find(symbol_table, C, "g")
        about_g == DiagnosticsNaming(diagnostics, "g")
    IN  /\ ~crashed
        /\ Find(BuiltOuter, 1, "C") = C
        /\ Find(BuiltOuter, C, "g") = g
        /\ Cardinality(Members(symbol_table, C, "g")) = 1
        /\ Declaration(symbol_table, g) = Declaration(BuiltOuter, g)
        /\ IF BuiltOuter[g].type # DefinedAs(project.head[2])
           THEN /\ \E k \in 1..Len(diagnostics) :
                     /\ about_g = {k}
                     /\ diagnostics[k].code = "kAlreadyExists"
                     /\ diagnostics[k].context = g
                /\ Find(symbol_table, g, "x") = 0
           ELSE /\ about_g = {}
                /\ InnerNames(symbol_table, "g") # {}
                /\ \A at \in InnerNames(symbol_table, "g") :
                     Component(symbol_table, at).resolved_symbol = g
                /\ Find(symbol_table, g, "x") # 0

\* A function C::g has been defined out of line against the prototype of a
\* task g: the conflict is the only diagnostic, and g is still the task.
PrototypeDecidesDefinitionWitness ==
  /\ calls = <<"Build">>
  /\ project.head = <<"class C; extern task g(); endclass",
                      "function int C::g(); int x; endfunction">>
  /\ project.body = <<>>
  /\ Len(diagnostics) = 1
  /\ diagnostics[1].code = "kAlreadyExists"
  /\ symbol_table[Find(symbol_table, Find(symbol_table, 1, "C"), "g")].type
       = "kTask"

----------------------------------------------------------------------------
\* Include directives.

\* The file an item names when it is an include directive ("" otherwise).
IncludedName(text) ==
  CASE text = "include \"a.svh\"" -> "a.svh"
    [] text = "include \"b.svh\"" -> "b.svh"
    [] OTHER -> ""

IsInclude(text) == IncludedName(text) # ""

IsNoInclude(text) == ~IsInclude(text)

\* Why the directive for that file fails, in the order the expander tests.
FailureOf(name) ==
  CASE ~project.attached -> "no project"
    [] project.attached /\ project.files[name] = "" -> "cannot open"
    [] project.attached /\ project.files[name] = "int a" -> "parse failure"
    [] OTHER -> "none"

\* Every include directive of module m fails.
EveryIncludeFails ==
  \A i \in 1..Len(project.body) :
    IsInclude(project.body[i]) =>
      FailureOf(IncludedName(project.body[i])) # "none"

IsFileDiagnostic(status) == status.name \in IncludeNames

IsNoFileDiagnostic(status) == ~IsFileDiagnostic(status)

\* The build of the translation unit without its include directives.
BuiltWithoutIncludes ==
  BuildSymbolTable(
    TranslationUnit([project EXCEPT !.body = SelectSeq(@, IsNoInclude)]),
    EmptySymbolTable, project)

\* C17 as stated. Every failing include directive, for want of a project as
\* for a file that cannot be opened or parsed, records a diagnostic, and the
\* table is the one built without the directives.
EveryIncludeFailureIsRecorded ==
  (calls = <<"Build">> /\ EveryIncludeFails) =>
    /\ ~crashed
    /\ symbol_table = BuiltWithoutIncludes.st
    /\ Len(SelectSeq(diagnostics, IsFileDiagnostic))
         = Len(SelectSeq(project.body, IsInclude))

\* C17. A failing include directive leaves the table, the origin file of the
\* symbols declared after it and the other diagnostics as they are without
\* the directive; a file that cannot be opened or does not parse is recorded
\* by one diagnostic per directive, in order, and a directive met by a
\* symbol table without project is passed over without a diagnostic.
IncludeFailureIsRecordedUnlessNoProject ==
  (calls = <<"Build">> /\ EveryIncludeFails) =>
    LET includes == SelectSeq(project.body, IsInclude)
        recorded == SelectSeq(diagnostics, IsFileDiagnostic)
    IN  /\ ~crashed
        /\ symbol_table = BuiltWithoutIncludes.st
        /\ SelectSeq(diagnostics, IsNoFileDiagnostic)
             = BuiltWithoutIncludes.diagnostics
        /\ IF ~project.attached THEN recorded = <<>>
           ELSE /\ Len(recorded) = Len(includes)
                /\ \A k \in 1..Len(includes) :
                     /\ recorded[k].name = IncludedName(includes[k])
                     /\ recorded[k].code =
                          IF FailureOf(IncludedName(includes[k]))
                               = "cannot open"
                          THEN "kNotFound" ELSE "kInvalidArgument"

\* Module m includes a file that cannot be opened and one that does not
\* parse, and has been built with two diagnostics.
IncludeFailureIsRecordedUnlessNoProjectWitness ==
  /\ calls = <<"Build">>
  /\ project.attached
  /\ project.body = <<"include \"a.svh\"", "include \"b.svh\"">>
  /\ project.files["a.svh"] = ""
  /\ project.files["b.svh"] = "int a"
  /\ Len(diagnostics) = 2
  /\ Len(symbol_table) = 2

\* C18. A build runs to its end, whatever the files of the project include.
BuildRunsToCompletion ==
  calls = <<"Build">> => ~crashed

----------------------------------------------------------------------------
\* Named parameters and named ports

\* The builder at the end of its walk of the translation unit.
Walked ==
  Visit(Builder(TranslationUnit(project), EmptySymbolTable, project),
        TranslationUnit(project).syntax_tree)

\* C23.  The pointer-stability check never fails during a build: no child
\* is appended to a reference node that has a child already and no room for
\* another, so the storage of the children is never moved under a sibling.
PointerStabilityCheckNeverFails ==
  calls = <<"Build">> => ~Walked.relocated

\* The components of a tree that name a type or a member of one, as opposed
\* to a named parameter of it.
NamesType(component) == component.metatype # "kParameter"

\* C24.  The user-defined-type pointer of a typed declaration designates
\* the component of the type itself: the last of the components that name
\* the type, and never one of a named parameter.
UserDefinedTypeIsTypeComponent ==
  (calls = <<"Build">> /\ ~crashed) =>
    \A s \in 1..Len(symbol_table) :
      LET type == symbol_table[s].declared_type.user_defined_type
      IN  type # NullRef =>
            /\ NamesType(Component(symbol_table, type))
            /\ \A at \in TreeOf(symbol_table, type) :
                 Component(symbol_table, at).parent = type.node =>
                   ~NamesType(Component(symbol_table, at))

\* The reference trees of "A#(.B(1))::C#(.D(E#(.F(0))))::G" as the comment
\* of DescendDataType draws them: the component each component hangs under.
DocumentedParent ==
  [id \in {"B", "C", "D", "G", "F"} |->
     CASE id \in {"B", "C"} -> "A"
       [] id \in {"D", "G"} -> "C"
       [] id = "F" -> "E"]

\* C25.  The reference trees of a generalized type are the documented ones:
\* a named parameter hangs under the component of the type it parameterizes
\* and a "::" member under the component ahead of the "::", so nothing hangs
\* under a named parameter, and in the documented example A has the
\* children B and C, C the children D and G, and E the child F.
GeneralizedTypeTreesAreDocumented ==
  (calls = <<"Build">> /\ ~crashed) =>
    \A at \in References(symbol_table) :
      LET component == Component(symbol_table, at)
          above == Component(symbol_table, ParentOf(symbol_table, at))
      IN  /\ component.parent # 0 => NamesType(above)
          /\ component.identifier \in DOMAIN DocumentedParent =>
               /\ component.parent # 0
               /\ above.identifier = DocumentedParent[component.identifier]

\* The self-reference of an instance declaration: the tree whose root
\* expects an instance (only DeclareInstance makes such a root).
IsSelfReference(tree) == tree[1].metatype = "kDataNetVariableInstance"

\* The named ports recorded in the table.
NamedPorts(st) ==
  { at \in References(st) :
      /\ Component(st, at).parent # 0
      /\ Component(st, at).metatype = "kDataNetVariableInstance" }

\* The instance declarations among the items of module m.
InstanceItems ==
  { i \in 1..Len(project.body) :
      project.body[i] \in {"T u(.a(x), .b(y));", "T#(.P(1)) u(.a(x));"} }

\* C26.  An instance declaration records one self-reference tree, whose
\* root is pre-resolved to the declared instance symbol and has every named
\* port as a direct child; a full Resolve binds each named port to the
\* symbol of its name in the scope of the declared type T of the instance.
NamedPortsBindInTypeScope ==
  LET st == symbol_table
      m == Find(st, 1, "m")
      T == Find(st, 1, "T")
      trees == st[m].local_references_to_bind
      self == { r \in 1..Len(trees) : IsSelfReference(trees[r]) }
  IN  (~crashed /\ calls \in {<<"Build">>, <<"Build", "Resolve">>}) =>
        /\ Cardinality(self) = Cardinality(InstanceItems)
        /\ \A r \in self :
             /\ trees[r][1].resolved_symbol # 0
             /\ trees[r][1].resolved_symbol =
                  Find(st, m, trees[r][1].identifier)
        /\ \A port \in NamedPorts(st) :
             /\ port.scope = m /\ port.ref \in self
             /\ Component(st, port).parent = 1
             /\ (calls = <<"Build", "Resolve">> /\ T # 0) =>
                  /\ Component(st, port).resolved_symbol # 0
                  /\ Component(st, port).resolved_symbol =
                       Find(st, T, Component(st, port).identifier)

\* ---------------------------------------------------------------------
\* The reference branch point

\* The entries of the walk's history that are reference-capturing subtrees:
\* a data type, a reference expression or call, the qualified id of an
\* out-of-line definition, an instance.
IsCapture(e) ==
  \/ e.tag \in {"kDataType", "kReferenceCallBase", "kGateInstance"}
  \/ e.tag = "kQualifiedId" /\ e.within \in {"kFunctionHeader", "kTaskHeader"}

\* C27: on leaving any reference-capturing subtree the reference branch
\* point has the value it had on entry, and a named parameter or named port
\* is only ever attached under a node of the tree under construction, never
\* under a node of a committed tree.
BranchPointIsRestored ==
  calls = <<"Build">> =>
    \A i \in DOMAIN Walked.trace :
      LET e == Walked.trace[i]
      IN  /\ IsCapture(e) => e.branch_out = e.branch_in
          /\ e.tag \in {"kParamByName", "kActualNamedPort"} =>
               e.branch_in.level # 0

\* ---------------------------------------------------------------------
\* Anonymous scopes

MaxAnonymous == 9

\* A name of the form "%anon-generate-<n>".
IsAnonymousName(name) ==
  \E n \in 0..MaxAnonymous : name = "%" \o "anon-generate-" \o ToString(n)

\* The number of generate blocks without label that a text of the
\* translation units writes (an include directive writes those of its file).
UnlabeledBlocks(p, text) ==
  CASE text \in {"if (1) begin end", "module m; if (1) begin end endmodule"} -> 1
    [] text \in {"if (1) begin end else begin end",
                 "if (1) begin end else if (1) wire x;",
                 "if (1) begin if (1) begin end end"} -> 2
    [] text = "include \"a.svh\"" /\ p.files["a.svh"] # "" -> 1
    [] OTHER -> 0

RECURSIVE UnlabeledFrom(_, _, _)
UnlabeledFrom(p, texts, i) ==
  IF i > Len(texts) THEN 0
  ELSE UnlabeledBlocks(p, texts[i]) + UnlabeledFrom(p, texts, i + 1)

AnonymousScopes(st) ==
  { s \in 1..Len(st) : st[s].type = "kGenerate" /\ IsAnonymousName(st[s].key) }

\* C21.  Every generate block without label gets a scope of its own under a
\* name of the form "%anon-generate-<n>": there are as many such scopes as
\* blocks without label, a generate scope has such a name or its label, the
\* names a scope handed out are pairwise distinct, and no "already defined"
\* diagnostic names one of them -- for any number of such blocks, also in a
\* module that is declared twice or once more through an include.
AnonymousScopesAreDistinct ==
  (calls = <<"Build">> /\ ~crashed) =>
    /\ Cardinality(AnonymousScopes(symbol_table))
         = UnlabeledFrom(project, project.head \o project.body, 1)
    /\ \A s \in 1..Len(symbol_table) :
         /\ symbol_table[s].type = "kGenerate" =>
              IsAnonymousName(symbol_table[s].key) \/ symbol_table[s].key = "g"
         /\ \A i, j \in 1..Len(symbol_table[s].anonymous_scope_names) :
              /\ IsAnonymousName(symbol_table[s].anonymous_scope_names[i])
              /\ symbol_table[s].anonymous_scope_names[i]
                   = symbol_table[s].anonymous_scope_names[j] => i = j
    /\ \A i \in 1..Len(diagnostics) :
         diagnostics[i].code = "kAlreadyExists" =>
           ~IsAnonymousName(diagnostics[i].name)

\* Module m is declared by the include file and again by the unit, and its
\* scope has handed out three names.
AnonymousScopesInReenteredModule ==
  /\ calls = <<"Build">> /\ ~crashed
  /\ project.head = <<"include \"a.svh\"">>
  /\ \E i \in 1..Len(diagnostics) :
       diagnostics[i].code = "kAlreadyExists" /\ diagnostics[i].name = "m"
  /\ \E s \in AnonymousScopes(symbol_table) :
       /\ symbol_table[s].key = "%anon-generate-2"
       /\ symbol_table[symbol_table[s].parent].key = "m"

\* ---------------------------------------------------------------------
\* The current scope

\* The scoped constructs among the entries of the walk's history.
ScopedTags ==
  { "kModuleDeclaration", "kPackageDeclaration", "kClassDeclaration",
    "kGenerateIfClause", "kGenerateElseClause",
    "kFunctionDeclaration", "kFunctionPrototype",
    "kTaskDeclaration", "kTaskPrototype" }

\* C28.  The current scope obeys a stack discipline: after the walk of a
\* scoped construct (out-of-line definitions, duplicates and failed
\* declarations included) it is what it was before, and at the end of the
\* walk of the unit it is the root; an include leaves the current scope and
\* the origin file as it found them, the origin file being the included file
\* for the constructs of the included tree only.
CurrentScopeIsRestored ==
  (calls = <<"Build">> /\ ~crashed) =>
    /\ Walked.current_scope_ = 1
    /\ Walked.source_ = "m.sv"
    /\ \A i \in DOMAIN Walked.trace :
         LET e == Walked.trace[i]
         IN  /\ e.tag \in ScopedTags => e.scope_out = e.scope_in
             /\ e.source_out = e.source_in
             /\ e.tag = "kPreprocessorInclude" =>
                  /\ e.scope_out = e.scope_in
                  /\ e.source_in = "m.sv"
                  /\ \A j \in DOMAIN Walked.trace :
                       Walked.trace[j].source_in # "m.sv" => j < i
    /\ \A s \in 2..Len(symbol_table) :
         symbol_table[s].file_origin # "m.sv" =>
           /\ project.head = <<"include \"a.svh\"">>
           /\ symbol_table[s].key \in {"m", "%anon-generate-0"}

\* The walk went through an include that declares module m, through the
\* second declaration of m with a generate clause in it, and through an
\* out-of-line definition.
ScopedConstructsWalked ==
  /\ calls = <<"Build">> /\ ~crashed
  /\ \E i, j, k, l \in DOMAIN Walked.trace :
       /\ Walked.trace[i].tag = "kPreprocessorInclude"
       /\ Walked.trace[j].tag = "kGenerateIfClause"
       /\ Walked.trace[j].source_in = "m.sv"
       /\ Walked.trace[j].scope_in # 1
       /\ Walked.trace[k].tag = "kQualifiedId"
       /\ Walked.trace[k].within = "kFunctionHeader"
       /\ Walked.trace[l].tag = "kFunctionDeclaration"
       /\ k < l
  /\ \E i \in 1..Len(diagnostics) :
       diagnostics[i].code = "kAlreadyExists" /\ diagnostics[i].name = "m"

\* ---------------------------------------------------------------------
\* Local resolution on a built table

\* C29.  ResolveLocallyOnly hits no fatal assertion on a table that Build
\* produced: every committed tree whose root is unresolved has a root of
\* ref_type unqualified (also the tree that an out-of-line definition with
\* an unknown outer class leaves behind), and the call runs to its end.
BuiltRootsAreUnqualified ==
  /\ (calls = <<"Build">> /\ ~crashed) =>
       \A at \in References(symbol_table) :
         LET component == Component(symbol_table, at)
         IN  (component.parent = 0 /\ component.resolved_symbol = 0) =>
               component.ref_type = "kUnqualified"
  /\ calls = <<"Build", "ResolveLocallyOnly">> => ~crashed

\* C30.  After any sequence of Build, ResolveLocallyOnly and Resolve, a
\* component that is bound and expects a metatype is bound to a symbol that
\* satisfies it: of that metatype, or a function or task for a callable.
BindingsRespectMetatype ==
  \A at \in References(symbol_table) :
    LET component == Component(symbol_table, at)
    IN  (component.resolved_symbol # 0 /\ component.metatype # "kUnspecified")
          => Satisfies(component.metatype,
                       symbol_table[component.resolved_symbol].type)

----------------------------------------------------------------------------
\* The strip-comments subcommand

\* The arguments of the subcommand of an exited run of strip-comments.
StripCommentsRun ==
  /\ process.exited
  /\ Len(process.argv) >= 2
  /\ process.argv[2] = "strip-comments"

\* No file argument, a replacement longer than one character, or more than
\* two arguments.
ArgumentsRejected(args) ==
  \/ args = <<>>
  \/ Len(args) = 2 /\ Len(args[2]) > 1
  \/ Len(args) > 2

\* The file argument names the standard input or a file there is.
CanBeRead(p, file) == file = "-" \/ file \in DOMAIN p.files

ContentsOf(p, file) == IF file = "-" THEN p.cin ELSE p.files[file]

\* The replacement character the arguments ask for.
ReplacementOf(args) ==
  CASE Len(args) = 1 -> " "
    [] args[2] = "" -> NUL
    [] OTHER -> args[2]

RejectedWithoutOutput == process.exit_code = 1 /\ process.cout = <<>>

StrippedWith(args) ==
  /\ process.exit_code = 0
  /\ process.cout = StripVerilogComments(ContentsOf(process, args[1]), <<>>,
                                         ReplacementOf(args))

\* C22 as stated: a run of strip-comments with no file argument, with a
\* replacement longer than one character or with more than two arguments
\* exits with code 1 and has written nothing; every other run exits with
\* code 0, having replaced the comments by a space when no replacement is
\* given, deleted them when it is the empty string, and replaced them by
\* the given character when it has length one.
StripCommentsExitsZeroOnValidArguments ==
  StripCommentsRun =>
    IF ArgumentsRejected(SubcommandArgsRange(process.argv))
    THEN RejectedWithoutOutput
    ELSE /\ process.exit_code = 0
         /\ CanBeRead(process, process.argv[3]) =>
              StrippedWith(SubcommandArgsRange(process.argv))

\* C22, amended: a run of strip-comments with no file argument, with a
\* replacement longer than one character, with more than two arguments or
\* with a file that cannot be read exits with code 1 and has written
\* nothing; every other run exits with code 0, having replaced the comments
\* by a space when no replacement is given, deleted them when it is the
\* empty string, and replaced them by the given character when it has
\* length one.
StripCommentsExitsZeroOnReadableFile ==
  StripCommentsRun =>
    IF \/ ArgumentsRejected(SubcommandArgsRange(process.argv))
       \/ ~CanBeRead(process, process.argv[3])
    THEN RejectedWithoutOutput
    ELSE StrippedWith(SubcommandArgsRange(process.argv))

\* A run that deleted the comment of a.v, and the newline in it not.
CommentsDeletedFromFile ==
  /\ StripCommentsRun
  /\ SubcommandArgsRange(process.argv) = <<"a.v", "">>
  /\ process.files["a.v"] = <<"/", "*", "c", "\n", "*", "/", "a">>
  /\ process.cout = <<"\n", "a">>
  /\ process.exit_code = 0

====
